---- MODULE Spec2Model ----
(***************************************************************************)
(* bktools: the MK-DOS volume decoder (mkdosfs::Fs) and the FUSE facade    *)
(* (fuse_mkdosfs::FuseFs) that serves it read-only.                        *)
(*                                                                         *)
(* The backing file is modelled field by field as it is stored on disk: a  *)
(* 320-byte meta block (the six words the decoder extracts), a list of     *)
(* 24-byte directory records and what follows them.  Every value read goes *)
(* through the configured reader (plain or bit-inverting).                 *)
(***************************************************************************)
EXTENDS Integers, Sequences, FiniteSets, TLC

\* ------------------------------------------------------------------------
\* Program constants
\* ------------------------------------------------------------------------
BLOCK_SIZE == 512
MKDOS_LABEL == 21260
MICRODOS_LABEL == 42798
DIR_MARKER == 127
DIR_ENTRY_SIZE == 24
FILE_NAME_SIZE == 14
META_SIZE == 320
DirEntriesStart == 320
FILE_INODES_START == 1001
ROOT_INO == 1
UNIX_EPOCH == 0
O_ACCMODE == 3
O_RDONLY == 0
O_WRONLY == 1
O_RDWR == 2
O_TRUNC == 512
R_OK == 4
W_OK == 2

U8 == 2 ^ 8
U16 == 2 ^ 16

\* ------------------------------------------------------------------------
\* Bounds of the model
\* ------------------------------------------------------------------------
\* the backing file's modification time takes the values 1 .. MaxTime
MaxTime == 2
\* a readdir reply buffer holds 1 .. MaxCap entries
MaxCap == 4

Min(a, b) == IF a < b THEN a ELSE b
Max(a, b) == IF a > b THEN a ELSE b

\* ------------------------------------------------------------------------
\* Stored images
\* ------------------------------------------------------------------------
SP == 32
NUL == 0

\* a 14-byte name field: the given bytes, padded with pad
NameField(core, pad) == core \o [i \in 1 .. (FILE_NAME_SIZE - Len(core)) |-> pad]

RawRec(st, dn, nm, sb, bl, ln) ==
    [status |-> st, dir_no |-> dn, name |-> nm, start_block |-> sb,
     blocks |-> bl, start_address |-> 512, length |-> ln]

\* a record of 24 zero bytes and one of 24 0xFF bytes
ZeroRec ==
    [status |-> 0, dir_no |-> 0, name |-> NameField(<<>>, 0), start_block |-> 0,
     blocks |-> 0, start_address |-> 0, length |-> 0]
OnesRec ==
    [status |-> U8 - 1, dir_no |-> U8 - 1, name |-> NameField(<<>>, U8 - 1),
     start_block |-> U16 - 1, blocks |-> U16 - 1, start_address |-> U16 - 1,
     length |-> U16 - 1]

\* directory records of the catalogue
fA    == RawRec(0, 0, NameField(<<65>>, SP), 25, 1, 100)
fB    == RawRec(1, 1, NameField(<<66>>, SP), 26, 2, 300)
fL    == RawRec(2, 0, NameField(<<76>>, NUL), 200, 130, 7)
d1    == RawRec(1, 0, NameField(<<DIR_MARKER, 68>>, SP), 28, 0, 0)
d1b   == RawRec(1, 1, NameField(<<DIR_MARKER, 69>>, SP), 28, 0, 0)
d0    == RawRec(0, 0, NameField(<<DIR_MARKER, 70>>, SP), 28, 0, 0)
fDel  == RawRec(255, 1, NameField(<<88>>, SP), 30, 1, 50)
fBad  == RawRec(128, 1, NameField(<<89>>, SP), 31, 1, 60)
dDel  == RawRec(255, 0, NameField(<<DIR_MARKER, 90>>, SP), 28, 0, 0)
fUnk  == RawRec(5, 0, NameField(<<85>>, SP), 40, 3, 70)
fOrph == RawRec(0, 5, NameField(<<79>>, SP), 32, 1, 80)
fZero == RawRec(0, 0, NameField(<<81>>, SP), 0, 1, 90)
fBig  == RawRec(0, 0, NameField(<<71>>, SP), 30, 40000, 10)

Image(mi, mk, fl, bl, ds, sb, rs, tl, ml) ==
    [microdos_label |-> mi, mkdos_label |-> mk, files |-> fl, blocks |-> bl,
     disk_size |-> ds, start_block |-> sb, recs |-> rs, tail |-> tl,
     metalen |-> ml]

Valid(fl, bl, rs, tl) ==
    Image(MICRODOS_LABEL, MKDOS_LABEL, fl, bl, 800, 25, rs, tl, META_SIZE)

\* images as a plain reader sees them
PlainImages ==
    { Valid(1, 26, <<fA>>, "zeros"),
      Valid(3, 28, <<d1, fB, fA>>, "zeros"),
      Valid(1, 26, <<fA, fDel, fBad>>, "zeros"),
      Valid(2, 26, <<d0, fA>>, "zeros"),
      Valid(2, 25, <<d1, d1b>>, "zeros"),
      Valid(1, 26, <<fOrph>>, "zeros"),
      Valid(2, 26, <<dDel, fA, fDel>>, "zeros"),
      Valid(2, 29, <<fA, fUnk>>, "zeros"),
      Valid(1, 29, <<fA, fUnk>>, "zeros"),
      Valid(2, 155, <<fL>>, "eof"),
      Valid(1, 26, <<fA>>, "eof"),
      Valid(2, 27, <<fZero, fA>>, "zeros"),
      Valid(0, 25, <<>>, "zeros"),
      Valid(2, 26, <<fBig, fBig>>, "zeros"),
      Image(MICRODOS_LABEL, MKDOS_LABEL, 2, 900, 800, 25, <<fA, fUnk>>, "zeros", META_SIZE),
      Image(MICRODOS_LABEL, MKDOS_LABEL, 1, 900, 800, 25, <<fA>>, "zeros", META_SIZE),
      Image(0, MKDOS_LABEL, 1, 26, 800, 25, <<fA>>, "zeros", META_SIZE),
      Image(MICRODOS_LABEL, 0, 1, 26, 800, 25, <<fA>>, "zeros", META_SIZE),
      Image(0, 0, 1, 26, 800, 25, <<fA>>, "zeros", META_SIZE),
      Image(0, 0, 1, 26, 800, 25, <<fA>>, "zeros", 272) }

\* the byte-wise complement of a stored image
InvByte(b) == (U8 - 1) - b
InvWord(w) == (U16 - 1) - w
InvRec(r) ==
    [status |-> InvByte(r.status), dir_no |-> InvByte(r.dir_no),
     name |-> [i \in 1 .. Len(r.name) |-> InvByte(r.name[i])],
     start_block |-> InvWord(r.start_block), blocks |-> InvWord(r.blocks),
     start_address |-> InvWord(r.start_address), length |-> InvWord(r.length)]
InvTail(t) == CASE t = "zeros" -> "ones" [] t = "ones" -> "zeros" [] OTHER -> t
Complement(img) ==
    [microdos_label |-> InvWord(img.microdos_label),
     mkdos_label |-> InvWord(img.mkdos_label),
     files |-> InvWord(img.files), blocks |-> InvWord(img.blocks),
     disk_size |-> InvWord(img.disk_size), start_block |-> InvWord(img.start_block),
     recs |-> [i \in 1 .. Len(img.recs) |-> InvRec(img.recs[i])],
     tail |-> InvTail(img.tail), metalen |-> img.metalen]

InvertedImages ==
    { Complement(Valid(3, 28, <<d1, fB, fA>>, "zeros")),
      Complement(Valid(1, 26, <<fA, fDel, fBad>>, "zeros")),
      Complement(Valid(1, 26, <<fA>>, "eof")) }

Images == PlainImages \cup InvertedImages

\* ------------------------------------------------------------------------
\* Configurations: the Fs fields set before try_open and the FuseFs flags
\* ------------------------------------------------------------------------
Config(inv, off, sz, sd, sb, oc) ==
    [inverted |-> inv, offset |-> off, size |-> sz, show_deleted |-> sd,
     show_bad |-> sb, overflow_checks |-> oc, read_only |-> TRUE]

Configs ==
    { Config(FALSE, 0, 0, sd, sb, TRUE) : sd \in BOOLEAN, sb \in BOOLEAN }
    \cup { Config(FALSE, 0, 0, FALSE, FALSE, FALSE),
           Config(TRUE, 0, 0, TRUE, FALSE, TRUE),
           Config(FALSE, 0, 800 * BLOCK_SIZE, FALSE, FALSE, TRUE),
           Config(FALSE, 16 * BLOCK_SIZE, 800 * BLOCK_SIZE, FALSE, FALSE, TRUE),
           Config(FALSE, 16 * BLOCK_SIZE, 0, FALSE, FALSE, TRUE) }

\* ------------------------------------------------------------------------
\* Readers (mkdosfs::io)
\* ------------------------------------------------------------------------
\* Reader::read of a 16-bit little-endian field
ReadWord(w, inverted) == IF inverted THEN InvWord(w) ELSE w

\* Reader::read of the i-th 24-byte directory record into a zeroed buffer.
\* At end of file nothing is read and the buffer stays zero; the inverting
\* reader complements the whole buffer whatever was read.
ReadRecord(img, i, inverted) ==
    LET stored == IF i <= Len(img.recs) THEN img.recs[i]
                  ELSE IF img.tail = "ones" THEN OnesRec
                  ELSE ZeroRec
    IN  IF inverted THEN InvRec(stored) ELSE stored

\* ------------------------------------------------------------------------
\* Meta::default, Fs::default
\* ------------------------------------------------------------------------
MetaDefault ==
    [files |-> 0, blocks |-> 0, microdos_label |-> MICRODOS_LABEL,
     mkdos_label |-> MKDOS_LABEL, disk_size |-> 0, start_block |-> 0]

\* ------------------------------------------------------------------------
\* Fs::read_meta
\* ------------------------------------------------------------------------
\* read_meta with the two label tests in the other order
read_meta_mkdos_first(img, c, meta0) ==
    LET files  == ReadWord(img.files, c.inverted)
        blocks == ReadWord(img.blocks, c.inverted)
        label1 == ReadWord(img.microdos_label, c.inverted)
        label2 == ReadWord(img.mkdos_label, c.inverted)
        m1     == [meta0 EXCEPT !.files = files, !.blocks = blocks]
    IN  IF img.metalen < META_SIZE
            THEN [err |-> "BadMetaSize", meta |-> meta0]
        ELSE IF label2 # MKDOS_LABEL
            THEN [err |-> "LabelMkDos", meta |-> m1]
        ELSE IF label1 # MICRODOS_LABEL
            THEN [err |-> "LabelMicroDos", meta |-> m1]
        ELSE [err |-> "ok",
              meta |-> [m1 EXCEPT !.disk_size = ReadWord(img.disk_size, c.inverted),
                                  !.start_block = ReadWord(img.start_block, c.inverted)]]

read_meta(img, c, meta0) ==
    LET files  == ReadWord(img.files, c.inverted)
        blocks == ReadWord(img.blocks, c.inverted)
        label1 == ReadWord(img.microdos_label, c.inverted)
        label2 == ReadWord(img.mkdos_label, c.inverted)
        m1     == [meta0 EXCEPT !.files = files, !.blocks = blocks]
    IN  IF img.metalen < META_SIZE
            THEN [err |-> "BadMetaSize", meta |-> meta0]
        ELSE IF label1 # MICRODOS_LABEL
            THEN [err |-> "LabelMicroDos", meta |-> m1]
        ELSE IF label2 # MKDOS_LABEL
            THEN [err |-> "LabelMkDos", meta |-> m1]
        ELSE [err |-> "ok",
              meta |-> [m1 EXCEPT !.disk_size = ReadWord(img.disk_size, c.inverted),
                                  !.start_block = ReadWord(img.start_block, c.inverted)]]

\* ------------------------------------------------------------------------
\* Name decoding: KOI8_R.decode, then str::trim_end
\* ------------------------------------------------------------------------
\* KOI8-R is ASCII on 0..127; the upper half maps to distinct non-ASCII code
\* points (U16 + b stands for the code point of byte b).
Koi8Char(b) == IF b < 128 THEN b ELSE U16 + b
Koi8Decode(bytes) == [i \in 1 .. Len(bytes) |-> Koi8Char(bytes[i])]

\* char::is_whitespace on the code points above (0x9A is NO-BREAK SPACE)
IsWhitespace(ch) == ch \in {9, 10, 11, 12, 13, 32, U16 + 154}

\* str::trim_end: the longest prefix that does not end in whitespace
trim_end(s) ==
    SubSeq(s, 1, CHOOSE n \in 0 .. Len(s) :
                    /\ n > 0 => ~IsWhitespace(s[n])
                    /\ \A i \in (n + 1) .. Len(s) : IsWhitespace(s[i]))

\* ------------------------------------------------------------------------
\* Fs::read_entries
\* ------------------------------------------------------------------------
\* u16 arithmetic: with overflow checks the build panics, without it wraps
Overflows16(x) == x < 0 \/ x >= U16
Wrap16(x) == x % U16

\* the record's status, flags and counters (the match on f_status)
\*   kind "stop": the unknown-status arm breaks out of the loop
\*   kind "panic": an overflow check fails
Classify(rec, meta, c, acc) ==
    LET is_directory == rec.name[1] = DIR_MARKER
        flags == [is_dir |-> is_directory, is_normal |-> FALSE,
                  is_protected |-> FALSE, is_logical |-> FALSE, is_bad |-> FALSE,
                  is_deleted |-> FALSE, is_unknown |-> FALSE]
        used  == acc.used_blocks + rec.blocks
        bad   == acc.bad_blocks + rec.blocks
        hole  == acc.hole_blocks + rec.blocks
        free  == meta.disk_size - meta.blocks
        Counted(st, fl) ==
            IF Overflows16(used) /\ c.overflow_checks
                THEN [kind |-> "panic"]
                ELSE [kind |-> "entry", status |-> st, flags |-> fl,
                      acc |-> [acc EXCEPT !.count_normal = @ + 1,
                                          !.used_blocks = Wrap16(used)]]
    IN  IF is_directory
            THEN IF rec.status = 255
                     THEN [kind |-> "entry", status |-> "Deleted", flags |-> flags,
                           acc |-> acc]
                     ELSE [kind |-> "entry", status |-> "Directory", flags |-> flags,
                           acc |-> [acc EXCEPT !.count_normal = @ + 1]]
        ELSE CASE rec.status = 0 ->
                    Counted("Normal", [flags EXCEPT !.is_normal = TRUE])
               [] rec.status = 1 ->
                    Counted("Protected", [flags EXCEPT !.is_protected = TRUE])
               [] rec.status = 2 ->
                    Counted("LogicalDisk", [flags EXCEPT !.is_logical = TRUE])
               [] rec.status = 128 ->
                    IF Overflows16(bad) /\ c.overflow_checks
                        THEN [kind |-> "panic"]
                        ELSE [kind |-> "entry", status |-> "BadFile",
                              flags |-> [flags EXCEPT !.is_bad = TRUE],
                              acc |-> [acc EXCEPT !.bad_blocks = Wrap16(bad)]]
               [] rec.status = 255 ->
                    IF Overflows16(hole) /\ c.overflow_checks
                        THEN [kind |-> "panic"]
                        ELSE [kind |-> "entry", status |-> "Deleted",
                              flags |-> [flags EXCEPT !.is_deleted = TRUE],
                              acc |-> [acc EXCEPT !.hole_blocks = Wrap16(hole)]]
               [] OTHER ->
                    IF \/ acc.count_normal >= meta.files
                       \/ rec.start_block <= meta.start_block
                       \/ rec.start_block >= meta.disk_size
                        THEN [kind |-> "stop"]
                    ELSE IF Overflows16(free) /\ c.overflow_checks
                        THEN [kind |-> "panic"]
                    ELSE IF rec.blocks > Wrap16(free)
                        THEN [kind |-> "stop"]
                    ELSE [kind |-> "entry", status |-> "Normal",
                          flags |-> [flags EXCEPT !.is_unknown = TRUE],
                          acc |-> acc]

\* the DirEntry pushed for a classified record
MakeEntry(rec, cl, file_inodes) ==
    LET is_directory == rec.name[1] = DIR_MARKER
        name_off == IF is_directory THEN Tail(rec.name) ELSE rec.name
        mode0 == IF is_directory THEN 493 ELSE 292
    IN  [status |-> cl.status,
         dir_no |-> rec.dir_no,
         name |-> trim_end(Koi8Decode(name_off)),
         start_block |-> rec.start_block,
         blocks |-> rec.blocks,
         start_address |-> rec.start_address,
         length |-> rec.length,
         size |-> IF rec.blocks > (U16 - 1) \div BLOCK_SIZE + 1
                      THEN rec.blocks * BLOCK_SIZE ELSE rec.length,
         inode |-> IF is_directory THEN 1 + rec.status ELSE file_inodes,
         parent_inode |-> IF cl.flags.is_deleted \/ cl.flags.is_bad
                              THEN 1 ELSE 1 + rec.dir_no,
         is_dir |-> cl.flags.is_dir,
         is_normal |-> cl.flags.is_normal,
         is_protected |-> cl.flags.is_protected,
         is_logical |-> cl.flags.is_logical,
         is_bad |-> cl.flags.is_bad,
         is_deleted |-> cl.flags.is_deleted,
         is_unknown |-> cl.flags.is_unknown,
         mode |-> IF cl.flags.is_protected THEN mode0 + 512 ELSE mode0]

AccInit(file_inodes) ==
    [entries |-> <<>>, count_normal |-> 0, used_blocks |-> 0, bad_blocks |-> 0,
     hole_blocks |-> 0, file_inodes |-> file_inodes, panic |-> FALSE]

\* the loop of read_entries from the i-th record on:
\*   EntriesLoop reads the record, EntriesStep tests the terminator and
\*   classifies, EntriesPush pushes the entry and tests the cursor
RECURSIVE EntriesLoop(_, _, _, _, _)

EntriesPush(img, c, meta, i, acc, rec, cl) ==
    IF cl.kind = "stop" THEN acc
    ELSE IF cl.kind = "panic" THEN [acc EXCEPT !.panic = TRUE]
    ELSE IF DirEntriesStart + c.offset + i * DIR_ENTRY_SIZE
                > rec.start_block * BLOCK_SIZE + c.offset
        THEN [cl.acc EXCEPT
                !.entries = Append(@, MakeEntry(rec, cl, acc.file_inodes)),
                !.file_inodes = IF rec.name[1] = DIR_MARKER THEN @ ELSE @ + 1]
    ELSE EntriesLoop(img, c, meta, i + 1,
            [cl.acc EXCEPT
                !.entries = Append(@, MakeEntry(rec, cl, acc.file_inodes)),
                !.file_inodes = IF rec.name[1] = DIR_MARKER THEN @ ELSE @ + 1])

EntriesStep(img, c, meta, i, acc, rec) ==
    IF rec.name[1] = 0 THEN acc
    ELSE EntriesPush(img, c, meta, i, acc, rec, Classify(rec, meta, c, acc))

EntriesLoop(img, c, meta, i, acc) ==
    EntriesStep(img, c, meta, i, acc, ReadRecord(img, i, c.inverted))

\* the checks after the loop (warnings, and one more u16 addition)
EntriesCheck(c, meta, acc) ==
    IF ~acc.panic /\ Overflows16(acc.used_blocks + meta.start_block)
                  /\ c.overflow_checks
        THEN [acc EXCEPT !.panic = TRUE]
        ELSE acc

read_entries(img, c, meta, file_inodes) ==
    EntriesCheck(c, meta, EntriesLoop(img, c, meta, 1, AccInit(file_inodes)))

\* ------------------------------------------------------------------------
\* Fs: try_open, try_reopen, check_modified and the entry queries
\* ------------------------------------------------------------------------
FsDefault ==
    [meta |-> MetaDefault, entries |-> <<>>, file_inodes |-> FILE_INODES_START,
     size |-> 0, last_modified |-> UNIX_EPOCH]

\* length of the backing file in bytes, and Metadata::blocks
FileLen(img, c) ==
    c.offset + (IF img.metalen < META_SIZE THEN img.metalen
                ELSE IF img.tail = "eof"
                    THEN META_SIZE + DIR_ENTRY_SIZE * Len(img.recs)
                ELSE 800 * BLOCK_SIZE)
FileBlocks(img, c) == (FileLen(img, c) + BLOCK_SIZE - 1) \div BLOCK_SIZE

\* try_open, in the order of the code; err is "ok", an FsError or "panic"
\*   OpenEntries: self.read_entries()? on the Fs that holds the meta
OpenEntries(fs2, re) ==
    [err |-> IF re.panic THEN "panic" ELSE "ok",
     fs |-> [fs2 EXCEPT !.entries = fs2.entries \o re.entries,
                        !.file_inodes = re.file_inodes]]

\*   OpenMeta: self.read_meta()?
OpenMeta(img, c, fs1, rm) ==
    IF rm.err # "ok"
        THEN [err |-> rm.err, fs |-> [fs1 EXCEPT !.meta = rm.meta]]
        ELSE OpenEntries([fs1 EXCEPT !.meta = rm.meta],
                         read_entries(img, c, rm.meta, fs1.file_inodes))

try_open(img, c, fs0, mt) ==
    IF fs0.size = 0 /\ c.offset # 0
        THEN [err |-> "UnknownSize", fs |-> fs0]
        ELSE OpenMeta(img, c,
                      IF fs0.size = 0
                          THEN [fs0 EXCEPT !.size = FileBlocks(img, c) * BLOCK_SIZE,
                                           !.last_modified = mt]
                          ELSE fs0,
                      read_meta(img, c, fs0.meta))

\* try_reopen that keeps the entry list and the inode counter
try_reopen_keeping(img, c, fs0, mt) ==
    try_open(img, c, [fs0 EXCEPT !.size = 0, !.meta = MetaDefault], mt)

\* try_reopen that keeps the size
try_reopen_sized(img, c, fs0, mt) ==
    try_open(img, c,
             [fs0 EXCEPT !.file_inodes = FILE_INODES_START,
                         !.meta = MetaDefault, !.entries = <<>>],
             mt)

try_reopen(img, c, fs0, mt) ==
    try_open(img, c,
             [fs0 EXCEPT !.file_inodes = FILE_INODES_START, !.size = 0,
                         !.meta = MetaDefault, !.entries = <<>>],
             mt)

\* check_modified: the Fs after the check, whether it re-decoded, whether it
\* panicked ("Can't reopen")
Reopened(r) == [fs |-> r.fs, modified |-> TRUE, panic |-> r.err # "ok"]

\* check_modified that never sees a modification
check_modified_never(img, c, fs0, mt) ==
    [fs |-> fs0, modified |-> FALSE, panic |-> FALSE]

\* check_modified that re-decodes without taking the new time or a new size
check_modified_stale(img, c, fs0, mt) ==
    IF mt # fs0.last_modified
        THEN Reopened(try_open(img, c,
                 [fs0 EXCEPT !.file_inodes = FILE_INODES_START,
                             !.meta = MetaDefault, !.entries = <<>>], mt))
        ELSE [fs |-> fs0, modified |-> FALSE, panic |-> FALSE]

check_modified(img, c, fs0, mt) ==
    IF mt # fs0.last_modified
        THEN Reopened(try_reopen(img, c, [fs0 EXCEPT !.last_modified = mt], mt))
        ELSE [fs |-> fs0, modified |-> FALSE, panic |-> FALSE]

\* Option<&DirEntry> as a sequence of at most one entry
First(s) == IF s = <<>> THEN <<>> ELSE <<Head(s)>>

\* the scans of the three queries over the entry list
ByParent(entries, parent_ino) ==
    SelectSeq(entries, LAMBDA e : e.parent_inode = parent_ino)
ByName(entries, name, parent_inode) ==
    First(SelectSeq(entries,
                    LAMBDA e : e.parent_inode = parent_inode /\ e.name = name))
ByInode(entries, inode) ==
    First(SelectSeq(entries, LAMBDA e : e.inode = inode))

\* each query checks for a modification first; q is what the scan returns
Answer(cm, q) ==
    [fs |-> cm.fs, panic |-> cm.panic, modified |-> cm.modified, q |-> q]

WithParent(cm, parent_ino) == Answer(cm, ByParent(cm.fs.entries, parent_ino))
entries_by_parent_inode(img, c, fs0, mt, parent_ino) ==
    WithParent(check_modified(img, c, fs0, mt), parent_ino)

WithName(cm, name, parent_inode) ==
    Answer(cm, ByName(cm.fs.entries, name, parent_inode))
\* the entries the flags of c leave in sight
InSight(c, entries) ==
    SelectSeq(entries, LAMBDA e : (~e.is_deleted \/ c.show_deleted)
                                   /\ (~e.is_bad \/ c.show_bad))
\* find_entrie that passes over the entries the flags hide
VisibleWithName(c, cm, name, parent_inode) ==
    Answer(cm, ByName(InSight(c, cm.fs.entries), name, parent_inode))
find_entrie_visible(img, c, fs0, mt, name, parent_inode) ==
    VisibleWithName(c, check_modified(img, c, fs0, mt), name, parent_inode)
find_entrie(img, c, fs0, mt, name, parent_inode) ==
    WithName(check_modified(img, c, fs0, mt), name, parent_inode)

WithInode(cm, inode) == Answer(cm, ByInode(cm.fs.entries, inode))
entrie_by_inode(img, c, fs0, mt, inode) ==
    WithInode(check_modified(img, c, fs0, mt), inode)

\* ------------------------------------------------------------------------
\* FuseFs
\* ------------------------------------------------------------------------
from_direntry_status(status) ==
    IF status = "Directory" THEN "Directory" ELSE "RegularFile"

FileAttr(ino, e) ==
    [ino |-> ino, size |-> e.length, blocks |-> e.blocks,
     kind |-> from_direntry_status(e.status), perm |-> e.mode, nlink |-> 1]

ROOT_DIR_ATTR ==
    [ino |-> 1, size |-> 0, blocks |-> 0, kind |-> "Directory", perm |-> 493,
     nlink |-> 2]

\* FuseFs::lookup: the reply for what find_entrie returned
LookupReply(r) ==
    IF r.panic THEN [status |-> "panic"]
    ELSE IF r.q = <<>> THEN [status |-> "ENOENT"]
    ELSE [status |-> "entry", attr |-> FileAttr(r.q[1].inode, r.q[1])]

\* FuseFs::getattr of an inode other than 1
GetattrReply(ino, r) ==
    IF r.panic THEN [status |-> "panic"]
    ELSE IF r.q = <<>> THEN [status |-> "ENOENT"]
    ELSE [status |-> "attr", attr |-> FileAttr(ino, r.q[1])]

\* open without the read_only tests
OpenReply_writable(c, flags) ==
    LET acc == flags % (O_ACCMODE + 1)
        trunc == (flags \div O_TRUNC) % 2 = 1
    IN  CASE acc = O_RDONLY ->
                IF trunc THEN [status |-> "EACCES", fh |-> 0, mask |-> 0]
                ELSE [status |-> "opened", fh |-> 0, mask |-> R_OK]
          [] acc = O_WRONLY -> [status |-> "opened", fh |-> 0, mask |-> W_OK]
          [] acc = O_RDWR -> [status |-> "opened", fh |-> 0, mask |-> R_OK + W_OK]
          [] OTHER -> [status |-> "EINVAL", fh |-> 0, mask |-> 0]

\* FuseFs::open and FuseFs::opendir: the reply for a flags value
OpenReply(c, flags) ==
    LET acc == flags % (O_ACCMODE + 1)
        trunc == (flags \div O_TRUNC) % 2 = 1
    IN  CASE acc = O_RDONLY ->
                IF trunc THEN [status |-> "EACCES", fh |-> 0, mask |-> 0]
                ELSE [status |-> "opened", fh |-> 0, mask |-> R_OK]
          [] acc = O_WRONLY ->
                IF c.read_only THEN [status |-> "EACCES", fh |-> 0, mask |-> 0]
                ELSE [status |-> "opened", fh |-> 0, mask |-> W_OK]
          [] acc = O_RDWR ->
                IF c.read_only THEN [status |-> "EACCES", fh |-> 0, mask |-> 0]
                ELSE [status |-> "opened", fh |-> 0, mask |-> R_OK + W_OK]
          [] OTHER -> [status |-> "EINVAL", fh |-> 0, mask |-> 0]

\* read size clamped to the length only, not to what is left after offset
ReadSize_whole(e, offset, size) == Min(size, e.length)

\* FuseFs::read: file_size.saturating_sub(offset), then min with size
ReadSize(e, offset, size) ==
    Min(size, IF offset > e.length THEN 0 ELSE e.length - offset)

\* FuseFs::read: the reply for what entrie_by_inode returned
ReadReply(c, r, offset, size) ==
    IF r.panic THEN [status |-> "panic"]
    ELSE IF r.q = <<>> THEN [status |-> "ENOENT"]
    ELSE [status |-> "data",
          len |-> ReadSize(r.q[1], offset, size),
          at |-> c.offset + offset + r.q[1].start_block * BLOCK_SIZE]

\* ReplyDirectory::add: TRUE (full) when the entry does not fit
DirAdd(em, cap, x) ==
    IF Len(em) < cap THEN [em |-> Append(em, x), full |-> FALSE]
    ELSE [em |-> em, full |-> TRUE]

DirItem(ino, next, kind, name) ==
    [ino |-> ino, next_offset |-> next, kind |-> kind, name |-> name]

DOT == <<46>>
DOTDOT == <<46, 46>>

\* the filter of readdir
Visible(c, e) ==
    (~e.is_deleted \/ c.show_deleted) /\ (~e.is_bad \/ c.show_bad)

\* the entry loop tagging each child with its own index, not the next one
ScanEmit_own_index(kids, offset, cap, em) ==
    em \o [k \in 1 .. Min(Len(kids), cap - Len(em)) |->
             DirItem(kids[k].inode, offset + (k - 1),
                     from_direntry_status(kids[k].status), kids[k].name)]

\* the entry loop of readdir over kids, the children left after the filter and
\* the skip: each is added with the offset of the next one until the buffer is full
ScanEmit(kids, offset, cap, em) ==
    em \o [k \in 1 .. Min(Len(kids), cap - Len(em)) |->
             DirItem(kids[k].inode, offset + 1 + (k - 1),
                     from_direntry_status(kids[k].status), kids[k].name)]

Skip(s, n) == SubSeq(s, n + 1, Len(s))

ScanReply(c, r, offset, cap, em) ==
    IF r.panic THEN [fs |-> r.fs, status |-> "panic", emitted |-> <<>>]
    ELSE [fs |-> r.fs, status |-> "ok",
          emitted |-> ScanEmit(Skip(SelectSeq(r.q, LAMBDA e : Visible(c, e)),
                                    offset - 2),
                               offset, cap, em)]

ReaddirScan(img, c, fs0, mt, ino, offset, cap, em) ==
    ScanReply(c, entries_by_parent_inode(img, c, fs0, mt, ino), offset, cap, em)

\* status "dropped": the handler returned without replying (buffer full
\* while adding "." or "..")
Dropped(fs0, em) == [fs |-> fs0, status |-> "dropped", emitted |-> em]

\* ".." of the root, after a (the result of adding ".", if it was added)
RootDotDot(img, c, fs0, mt, cap, b) ==
    IF b.full THEN Dropped(fs0, b.em)
    ELSE ReaddirScan(img, c, fs0, mt, ROOT_INO, 2, cap, b.em)

\* ".." of another inode: entrie_by_inode, assert!(entry.is_some())
EntryDotDot(img, c, mt, ino, cap, r, b) ==
    IF b.full THEN Dropped(r.fs, b.em)
    ELSE ReaddirScan(img, c, r.fs, mt, ino, 2, cap, b.em)

OtherDotDot(img, c, mt, ino, cap, em, r) ==
    IF r.panic \/ r.q = <<>>
        THEN [fs |-> r.fs, status |-> "panic", emitted |-> <<>>]
        ELSE EntryDotDot(img, c, mt, ino, cap, r,
                         DirAdd(em, cap,
                                DirItem(r.q[1].parent_inode, 2, "Directory", DOTDOT)))

\* offsets 0 and 1, after a (the result of adding "." at offset 0)
Dots(img, c, fs0, mt, ino, cap, a) ==
    IF a.full THEN Dropped(fs0, a.em)
    ELSE IF ino = ROOT_INO
        THEN RootDotDot(img, c, fs0, mt, cap,
                        DirAdd(a.em, cap, DirItem(1, 2, "Directory", DOTDOT)))
        ELSE OtherDotDot(img, c, mt, ino, cap, a.em,
                         entrie_by_inode(img, c, fs0, mt, ino))

\* FuseFs::readdir
ReaddirResult(img, c, fs0, mt, ino, offset, cap) ==
    IF offset = 0
        THEN Dots(img, c, fs0, mt, ino, cap,
                  DirAdd(<<>>, cap, DirItem(ino, 1, "Directory", DOT)))
    ELSE IF offset = 1
        THEN Dots(img, c, fs0, mt, ino, cap, [em |-> <<>>, full |-> FALSE])
    ELSE ReaddirScan(img, c, fs0, mt, ino, offset, cap, <<>>)

\* ------------------------------------------------------------------------
\* The mounted filesystem as a state machine
\* ------------------------------------------------------------------------
VARIABLES
    cfg,      \* the configuration, fixed before try_open
    disk,     \* the backing file as stored
    mtime,    \* the backing file's modification time
    phase,    \* "init", "mounted", "failed" (mount error), "panicked"
    fs,       \* the Fs fields the decoder owns
    reply,    \* the request being served with its reply (and whether serving it
              \* re-decoded the volume), NoReply between requests
    rd,       \* a reader stack of the io modules over a byte store: the store,
              \* the cursor, the caller's buffer and the last call's result
    ahdd,     \* an AltPro block as stored and the AHDD that read_header fills
    ro,       \* Fs::try_open and Fs::check_modified taken statement by
              \* statement: the position in them, the file handles held and
              \* the fields that decide the path
    le        \* the loop of Fs::read_entries taken pass by pass: the position,
              \* the cursor, the index of the next record and the counters

vars == <<cfg, disk, mtime, phase, fs, reply, rd, ahdd, ro, le>>

\* the mounted filesystem holds no reader stack of its own and no AHDD
Idle == [at |-> "idle"]

\* request inputs
Inodes == {1, 2, 7, 256, 1001, 1002, 1003}
Parents == {1, 2, 7}
LookupNames == {<<65>>, <<66>>, <<88>>, <<89>>}
ReadInodes == {2, 7, 1001, 1002, 1003}
ReadOffsets == {0, 60, 100, 400}
ReadSizes == {40, 512}
DirInodes == {1, 2, 7, 1001}
DirOffsets == 0 .. 3
DirCaps == {1, 2, MaxCap}
OpenFlags == {0, 1, 2, 3, 512, 514}

\* the images another process writes while the volume is mounted
ModImages ==
    { Valid(3, 28, <<d1, fB, fA>>, "zeros"),
      Valid(1, 26, <<fA, fDel, fBad>>, "zeros"),
      Valid(0, 25, <<>>, "zeros"),
      Image(0, 0, 1, 26, 800, 25, <<fA>>, "zeros", META_SIZE),
      Complement(Valid(3, 28, <<d1, fB, fA>>, "zeros")) }

NoReply == [op |-> "none"]

Init ==
    /\ cfg \in Configs
    /\ disk \in Images
    /\ mtime = 1
    /\ phase = "init"
    /\ fs = [FsDefault EXCEPT !.size = cfg.size]
    /\ reply = NoReply
    /\ rd = Idle
    /\ ahdd = Idle
    /\ ro = Idle
    /\ le = Idle

\* after a panic the process is gone
PhaseAfter(panic) == IF panic THEN "panicked" ELSE "mounted"

\* FuseFs::new / main: Fs::try_open before the filesystem is served
Mount ==
    /\ phase = "init"
    /\ \E r \in {try_open(disk, cfg, fs, mtime)} :
           /\ fs' = r.fs
           /\ phase' = CASE r.err = "ok" -> "mounted"
                         [] r.err = "panic" -> "panicked"
                         [] OTHER -> "failed"
           /\ reply' = [op |-> "mount", status |-> r.err]
    /\ UNCHANGED <<cfg, disk, mtime, rd, ahdd, ro, le>>

\* another process rewrites the backing file
Modify ==
    /\ phase = "mounted"
    /\ reply = NoReply
    /\ mtime < MaxTime
    /\ \E img \in ModImages : disk' = img
    /\ mtime' = mtime + 1
    /\ UNCHANGED <<cfg, phase, fs, reply, rd, ahdd, ro, le>>

Lookup ==
    /\ phase = "mounted"
    /\ reply = NoReply
    /\ \E parent \in Parents, name \in LookupNames :
         \E r \in {find_entrie(disk, cfg, fs, mtime, name, parent)} :
             /\ fs' = r.fs
             /\ phase' = PhaseAfter(r.panic)
             /\ reply' = [op |-> "lookup", parent |-> parent, name |-> name,
                          redecoded |-> r.modified] @@ LookupReply(r)
    /\ UNCHANGED <<cfg, disk, mtime, rd, ahdd, ro, le>>

Getattr ==
    /\ phase = "mounted"
    /\ reply = NoReply
    /\ \E ino \in Inodes :
         IF ino = 1
             THEN /\ reply' = [op |-> "getattr", ino |-> ino, redecoded |-> FALSE,
                               status |-> "attr", attr |-> ROOT_DIR_ATTR]
                  /\ UNCHANGED <<fs, phase>>
             ELSE \E r \in {entrie_by_inode(disk, cfg, fs, mtime, ino)} :
                  /\ fs' = r.fs
                  /\ phase' = PhaseAfter(r.panic)
                  /\ reply' = [op |-> "getattr", ino |-> ino,
                               redecoded |-> r.modified] @@ GetattrReply(ino, r)
    /\ UNCHANGED <<cfg, disk, mtime, rd, ahdd, ro, le>>

Open ==
    /\ phase = "mounted"
    /\ reply = NoReply
    /\ \E flags \in OpenFlags :
         reply' = [op |-> "open", flags |-> flags] @@ OpenReply(cfg, flags)
    /\ UNCHANGED <<cfg, disk, mtime, phase, fs, rd, ahdd, ro, le>>

Opendir ==
    /\ phase = "mounted"
    /\ reply = NoReply
    /\ \E flags \in OpenFlags :
         reply' = [op |-> "opendir", flags |-> flags] @@ OpenReply(cfg, flags)
    /\ UNCHANGED <<cfg, disk, mtime, phase, fs, rd, ahdd, ro, le>>

Read ==
    /\ phase = "mounted"
    /\ reply = NoReply
    /\ \E ino \in ReadInodes, offset \in ReadOffsets, size \in ReadSizes :
         \E r \in {entrie_by_inode(disk, cfg, fs, mtime, ino)} :
             /\ fs' = r.fs
             /\ phase' = PhaseAfter(r.panic)
             /\ reply' = [op |-> "read", ino |-> ino, offset |-> offset,
                          size |-> size, redecoded |-> r.modified]
                         @@ ReadReply(cfg, r, offset, size)
    /\ UNCHANGED <<cfg, disk, mtime, rd, ahdd, ro, le>>

Readdir ==
    /\ phase = "mounted"
    /\ reply = NoReply
    /\ \E ino \in DirInodes, offset \in DirOffsets, cap \in DirCaps :
         \E r \in {ReaddirResult(disk, cfg, fs, mtime, ino, offset, cap)} :
             /\ fs' = r.fs
             /\ phase' = PhaseAfter(r.status = "panic")
             /\ reply' = [op |-> "readdir", ino |-> ino, offset |-> offset,
                          cap |-> cap, status |-> r.status, emitted |-> r.emitted,
                          redecoded |-> r.fs.last_modified # fs.last_modified]
    /\ UNCHANGED <<cfg, disk, mtime, rd, ahdd, ro, le>>

\* a u64 as four 16-bit limbs, most significant first
U64(x) == <<0, 0, 0, x>>

\* a - b in u64 for a, b < 2^16, as a wrapping subtraction leaves it
Sub64(a, b) ==
    IF a >= b THEN U64(a - b)
    ELSE <<U16 - 1, U16 - 1, U16 - 1, U16 - (b - a)>>

\* FuseFs::statfs: reply.statfs(blocks, bfree, bavail, files, ffree, bsize,
\* namelen, frsize)
StatfsReply(c, f) ==
    IF f.meta.blocks > f.meta.disk_size /\ c.overflow_checks
    THEN [status |-> "panic"]
    ELSE [status |-> "statfs",
          blocks |-> U64(f.meta.disk_size),
          bfree |-> Sub64(f.meta.disk_size, f.meta.blocks),
          bavail |-> Sub64(f.meta.disk_size, f.meta.blocks),
          files |-> U64(f.meta.files),
          ffree |-> U64(0),
          bsize |-> BLOCK_SIZE,
          namelen |-> 14,
          frsize |-> 0]

Statfs ==
    /\ phase = "mounted"
    /\ reply = NoReply
    /\ reply' = [op |-> "statfs"] @@ StatfsReply(cfg, fs)
    /\ phase' = PhaseAfter(fs.meta.blocks > fs.meta.disk_size /\ cfg.overflow_checks)
    /\ UNCHANGED <<cfg, disk, mtime, fs, rd, ahdd, ro, le>>

\* the reply is sent and the session loop takes the next request
Deliver ==
    /\ phase = "mounted"
    /\ reply # NoReply
    /\ reply' = NoReply
    /\ UNCHANGED <<cfg, disk, mtime, phase, fs, rd, ahdd, ro, le>>

Next ==
    \/ Mount
    \/ Deliver
    \/ Modify
    \/ Lookup
    \/ Getattr
    \/ Open
    \/ Opendir
    \/ Read
    \/ Readdir
    \/ Statfs

Spec == Init /\ [][Next]_vars

\* ========================================================================
\* Properties
\* ========================================================================
EntryInodes == {fs.entries[i].inode : i \in 1 .. Len(fs.entries)}

\* what a mount of the present backing file yields (default size)
FreshMount == try_open(disk, cfg, FsDefault, mtime)

\* the parsed model is the one a decode of the present backing file gives
ModelIsCurrent ==
    /\ fs.last_modified = mtime
    /\ fs.meta = FreshMount.fs.meta
    /\ fs.entries = FreshMount.fs.entries
    /\ fs.file_inodes = FreshMount.fs.file_inodes

\* the words at volume bytes 0x100 and 0x102 as the configured reader returns them
WordAt100 == ReadWord(disk.microdos_label, cfg.inverted)
WordAt102 == ReadWord(disk.mkdos_label, cfg.inverted)
\* try_open got to read the whole 320-byte meta block
MetaBlockRead ==
    /\ reply.op = "mount"
    /\ reply.status # "UnknownSize"
    /\ disk.metalen >= META_SIZE

\* C1 as stated: a mount succeeds only if the word at 0x100 is 0o123456 and
\* the word at 0x102 is 0o51414; a wrong first word fails the mount with the
\* MicroDOS-label error whatever the second word is, a wrong second word alone
\* fails it with the MK-DOS-label error, and in both cases no entry is parsed.
C1_LabelsAloneDecideMount ==
    reply.op = "mount" =>
        /\ reply.status = "ok" =>
               WordAt100 = MICRODOS_LABEL /\ WordAt102 = MKDOS_LABEL
        /\ WordAt100 # MICRODOS_LABEL =>
               reply.status = "LabelMicroDos" /\ fs.entries = <<>>
        /\ (WordAt100 = MICRODOS_LABEL /\ WordAt102 # MKDOS_LABEL) =>
               reply.status = "LabelMkDos" /\ fs.entries = <<>>

\* C1 amended: a mount succeeds only if the word at 0x100 is 0o123456 and the
\* word at 0x102 is 0o51414.  A nonzero offset without a size fails it with
\* the unknown-size error and an image shorter than the meta block with the
\* bad-meta-size error, whatever the label words are.  Once the whole meta
\* block is read, a wrong first word fails the mount with the MicroDOS-label
\* error whatever the second word is and a wrong second word alone fails it
\* with the MK-DOS-label error.  In every failure case the entry list stays
\* empty.
C1_LabelsDecideMount ==
    reply.op = "mount" =>
        /\ reply.status = "ok" =>
               WordAt100 = MICRODOS_LABEL /\ WordAt102 = MKDOS_LABEL
        /\ (cfg.offset # 0 /\ cfg.size = 0) => reply.status = "UnknownSize"
        /\ (reply.status # "UnknownSize" /\ disk.metalen < META_SIZE) =>
               reply.status = "BadMetaSize"
        /\ (MetaBlockRead /\ WordAt100 # MICRODOS_LABEL) =>
               reply.status = "LabelMicroDos"
        /\ (MetaBlockRead /\ WordAt100 = MICRODOS_LABEL /\ WordAt102 # MKDOS_LABEL) =>
               reply.status = "LabelMkDos"
        /\ reply.status \in {"UnknownSize", "BadMetaSize", "LabelMicroDos", "LabelMkDos"} =>
               phase = "failed" /\ fs.entries = <<>>

\* both label words zero: the mount failed with the MicroDOS-label error
C1_Witness ==
    /\ reply.op = "mount"
    /\ reply.status = "LabelMicroDos"
    /\ WordAt100 = 0
    /\ WordAt102 = 0
    /\ disk.recs # <<>>

\* C2 as stated: after every lookup, getattr (root included) and readdir the
\* cached last_modified is the backing file's modification time and the parsed
\* model is the decode of the present backing file.
C2_EveryMetadataOpRevalidates ==
    (phase = "mounted" /\ reply.op \in {"lookup", "getattr", "readdir"}) =>
        ModelIsCurrent

\* the requests that reach check_modified: lookup, getattr of an inode other
\* than the root, readdir that gets to its entry scan
Revalidating ==
    \/ reply.op = "lookup"
    \/ reply.op = "getattr" /\ reply.ino # ROOT_INO
    \/ reply.op = "readdir" /\ reply.status = "ok"

\* C2 amended: after every lookup, every getattr of an inode other than the
\* root and every readdir that is not cut short by a full buffer at "." or "..",
\* last_modified is the backing file's modification time, the parsed model is
\* the decode of the present backing file (no old entry survives, file inodes
\* restart at 1001) and the reply is taken from it; getattr of the root
\* answers from constants and leaves the parsed model as it is.
C2_RevalidatingOps ==
    /\ (phase = "mounted" /\ Revalidating) =>
           /\ ModelIsCurrent
           /\ \A i \in 1 .. Len(fs.entries) :
                  ~fs.entries[i].is_dir => fs.entries[i].inode = FILE_INODES_START
                        + Cardinality({j \in 1 .. i - 1 : ~fs.entries[j].is_dir})
    /\ (phase = "mounted" /\ reply.op = "lookup") =>
           IF reply.status = "entry"
               THEN \E i \in 1 .. Len(fs.entries) :
                       /\ fs.entries[i].inode = reply.attr.ino
                       /\ fs.entries[i].parent_inode = reply.parent
                       /\ fs.entries[i].name = reply.name
               ELSE \A i \in 1 .. Len(fs.entries) :
                       ~(fs.entries[i].parent_inode = reply.parent
                         /\ fs.entries[i].name = reply.name)
    /\ (phase = "mounted" /\ reply.op = "getattr" /\ reply.ino # ROOT_INO) =>
           (reply.status = "attr" <=> reply.ino \in EntryInodes)
    /\ (reply.op = "getattr" /\ reply.ino = ROOT_INO) => ~reply.redecoded

\* a lookup after a modification re-decoded and found an entry of the new image
C2_Witness ==
    /\ phase = "mounted"
    /\ reply.op = "lookup"
    /\ reply.redecoded
    /\ reply.status = "entry"
    /\ mtime > 1
    /\ Len(fs.entries) = 3

\* C3 as stated: a read leaves meta, the entry list, the inode counter and
\* last_modified as they were, also when the modification time has changed.
C3_ReadNeverRedecodes ==
    [][reply'.op = "read" => fs' = fs]_vars

\* C3 amended: a read leaves the parsed model as it was when the backing
\* file's modification time equals the cached last_modified; when it differs
\* the read re-decodes as lookup does: unless the re-decode fails,
\* last_modified becomes the modification time and the model is the decode of
\* the present backing file.
C3_ReadRedecodesOnChange ==
    /\ [][reply'.op = "read" =>
              IF mtime = fs.last_modified
                  THEN fs' = fs /\ ~reply'.redecoded
                  ELSE /\ reply'.redecoded
                       /\ fs'.last_modified = mtime
                       /\ fs'.file_inodes <= FILE_INODES_START + Len(fs'.entries)]_vars
    /\ []((reply.op = "read" /\ phase = "mounted") => ModelIsCurrent)

\* a read that re-decoded and replied with data
C3_Witness ==
    /\ phase = "mounted"
    /\ reply.op = "read"
    /\ reply.redecoded
    /\ reply.status = "data"
    /\ mtime > 1

\* C4: after a successful decode no two entries have the same inode and no
\* entry has inode 1.
C4_InodesUnique ==
    phase = "mounted" =>
        /\ \A i, j \in 1 .. Len(fs.entries) :
               i # j => fs.entries[i].inode # fs.entries[j].inode
        /\ ROOT_INO \notin EntryInodes

\* C5: after a successful decode every entry that is neither deleted nor bad
\* has the root or some entry as its parent, and every deleted or bad entry
\* has the root as its parent.
C5_ParentsExist ==
    phase = "mounted" =>
        \A i \in 1 .. Len(fs.entries) :
            IF fs.entries[i].is_deleted \/ fs.entries[i].is_bad
                THEN fs.entries[i].parent_inode = ROOT_INO
                ELSE fs.entries[i].parent_inode \in {ROOT_INO} \cup EntryInodes

\* the entry a request on inode ino is answered from
EntryOf(ino) ==
    fs.entries[CHOOSE i \in 1 .. Len(fs.entries) :
                  /\ fs.entries[i].inode = ino
                  /\ \A j \in 1 .. i - 1 : fs.entries[j].inode # ino]

\* C6: a successful read replies with exactly
\* min(size, max(0, entry.length - offset)) bytes: none at or past the end of
\* the file, never more than the file's length.
C6_ReadClamped ==
    (reply.op = "read" /\ reply.status = "data") =>
        /\ reply.ino \in EntryInodes
        /\ reply.len = Min(reply.size,
                           Max(0, EntryOf(reply.ino).length - reply.offset))
        /\ reply.offset >= EntryOf(reply.ino).length => reply.len = 0
        /\ reply.len <= EntryOf(reply.ino).length

\* a read of 512 bytes at offset 60 of the 100-byte file replied with 40 bytes
C6_Witness ==
    /\ reply.op = "read"
    /\ reply.status = "data"
    /\ reply.offset = 60
    /\ reply.size = 512
    /\ reply.len = 40
    /\ EntryOf(reply.ino).length = 100

IsDirInode(p) ==
    \/ p = ROOT_INO
    \/ \E i \in 1 .. Len(fs.entries) : fs.entries[i].inode = p /\ fs.entries[i].is_dir

\* C7: for a directory inode p, readdir(p, 0) adds "." first with inode p,
\* readdir(p, 1) adds ".." first, with inode 1 for the root and the
\* parent_inode of p's entry otherwise, and the next_offset values of one
\* reply are strictly increasing.
C7_ReaddirOrder ==
    (reply.op = "readdir" /\ reply.status # "panic" /\ IsDirInode(reply.ino)) =>
        /\ reply.offset = 0 =>
               /\ reply.emitted # <<>>
               /\ reply.emitted[1].name = DOT
               /\ reply.emitted[1].ino = reply.ino
               /\ Len(reply.emitted) >= 2 => reply.emitted[2].name = DOTDOT
        /\ reply.offset = 1 =>
               /\ reply.emitted # <<>>
               /\ reply.emitted[1].name = DOTDOT
               /\ reply.emitted[1].ino =
                      IF reply.ino = ROOT_INO THEN ROOT_INO
                      ELSE EntryOf(reply.ino).parent_inode
        /\ \A i, j \in 1 .. Len(reply.emitted) :
               i < j => reply.emitted[i].next_offset < reply.emitted[j].next_offset

\* readdir of directory 2 from offset 0 replied ".", ".." (to the root) and a child
C7_Witness ==
    /\ reply.op = "readdir"
    /\ reply.status = "ok"
    /\ reply.ino = 2
    /\ reply.offset = 0
    /\ Len(reply.emitted) = 3
    /\ reply.emitted[2].ino = ROOT_INO
    /\ reply.emitted[3].next_offset = 3

\* C8: readdir emits an entry classified Deleted only when show_deleted is
\* set and one classified Bad only when show_bad is set, and with
\* show_deleted every deleted file is listed under the root.
C8_HiddenUnlessShown ==
    (reply.op = "readdir" /\ reply.status = "ok") =>
        /\ \A k \in 1 .. Len(reply.emitted), i \in 1 .. Len(fs.entries) :
               (/\ fs.entries[i].inode = reply.emitted[k].ino
                /\ fs.entries[i].name = reply.emitted[k].name
                /\ fs.entries[i].parent_inode = reply.ino) =>
                   /\ fs.entries[i].status = "Deleted" => cfg.show_deleted
                   /\ fs.entries[i].status = "BadFile" => cfg.show_bad
        /\ (cfg.show_deleted /\ reply.ino = ROOT_INO /\ reply.offset = 0
                /\ Len(reply.emitted) < reply.cap) =>
               \A i \in 1 .. Len(fs.entries) :
                   (fs.entries[i].status = "Deleted" /\ ~fs.entries[i].is_dir) =>
                       \E k \in 1 .. Len(reply.emitted) :
                           reply.emitted[k].ino = fs.entries[i].inode

\* C9: on an inode that is neither 1 nor the inode of a parsed entry, getattr,
\* read and readdir reply ENOENT, and so does lookup under such a parent.
C9_MissingInodeENOENT ==
    /\ (reply.op \in {"getattr", "read", "readdir"}
            /\ reply.ino \notin {ROOT_INO} \cup EntryInodes) =>
           reply.status = "ENOENT"
    /\ (reply.op = "lookup" /\ reply.parent \notin {ROOT_INO} \cup EntryInodes) =>
           reply.status = "ENOENT"

\* C10: open and opendir reply EACCES for O_WRONLY, O_RDWR and
\* O_RDONLY|O_TRUNC, EINVAL for no valid access mode, and otherwise success
\* with handle 0 and mask R_OK; W_OK is never granted.
C10_OpenReadOnly ==
    reply.op \in {"open", "opendir"} =>
        LET acc == reply.flags % 4
            trunc == (reply.flags \div 512) % 2 = 1
        IN  /\ reply.status \in {"EACCES", "EINVAL", "opened"}
            /\ reply.status = "EACCES" <=> (acc \in {1, 2} \/ (acc = 0 /\ trunc))
            /\ reply.status = "EINVAL" <=> acc = 3
            /\ reply.status = "opened" => reply.fh = 0 /\ reply.mask = R_OK
            /\ reply.mask \in {0, R_OK}

\* opendir with O_RDWR|O_TRUNC was refused
C10_Witness ==
    /\ reply.op = "opendir"
    /\ reply.flags = 514
    /\ reply.status = "EACCES"

\* what mounting the complement of the backing file with a plain reader yields
PlainTwin ==
    try_open(Complement(disk), [cfg EXCEPT !.inverted = FALSE],
             [FsDefault EXCEPT !.size = cfg.size], mtime)

\* C11: mounting an image through the inverting reader gives the mount
\* outcome, the meta and the entry list that mounting its byte-wise complement
\* through the plain reader gives, also when the directory scan reaches the
\* end of the backing file.
C11_InvertedEquivalent ==
    (reply.op = "mount" /\ cfg.inverted) =>
        /\ reply.status = PlainTwin.err
        /\ fs.meta = PlainTwin.fs.meta
        /\ fs.entries = PlainTwin.fs.entries

\* ========================================================================
\* The reader stacks (mkdosfs::io, bkhdd::io) over a byte store
\* ========================================================================
MaxReads == 3       \* reads in one run
MaxRead == 3        \* length of the caller's buffer

\* std::io::Read for the underlying store: as many bytes as are left, at most
\* the buffer's length, copied to the front of the buffer
FileRead(store, pos, buf) ==
    LET size == Max(0, Min(Len(buf), Len(store) - pos))
    IN  [buf |-> [i \in 1 .. Len(buf) |->
                     IF i <= size THEN store[pos + i] ELSE buf[i]],
         size |-> size, pos |-> pos + size, err |-> FALSE]

\* Seek::seek(SeekFrom::Current(d)): an error, and no move, before byte 0
SeekCurrent(pos, d) ==
    IF pos + d < 0 THEN [pos |-> pos, err |-> TRUE]
    ELSE [pos |-> pos + d, err |-> FALSE]

\* a reader that hands the bytes on as they are
BinInvertedRead_forgetful(inner) == inner

\* BinInvertedReader::read, given what the wrapped reader's read did: every
\* byte of the buffer is complemented, the size is handed on
BinInvertedRead(inner) ==
    [inner EXCEPT !.buf = [i \in 1 .. Len(inner.buf) |-> InvByte(inner.buf[i])]]

\* ReverseReader::read that does not step back after reading
ReverseRead_no_rewind(store, pos, buf) ==
    IF SeekCurrent(pos, 0 - Len(buf)).err
        THEN [buf |-> buf, size |-> 0, pos |-> pos, err |-> TRUE]
        ELSE FileRead(store, pos - Len(buf), buf)

\* ReverseReader::read that reads where it stands and steps back once
ReverseRead_read_first(store, pos, buf) ==
    [FileRead(store, pos, buf) EXCEPT
        !.pos = SeekCurrent(@, 0 - Len(buf)).pos,
        !.err = SeekCurrent(FileRead(store, pos, buf).pos, 0 - Len(buf)).err]

\* ReverseReader::read: seek back by the buffer's length, read, seek back again
ReverseRead2(rd1, len) ==
    [rd1 EXCEPT !.pos = SeekCurrent(rd1.pos, 0 - len).pos,
                !.err = SeekCurrent(rd1.pos, 0 - len).err]

ReverseRead(store, pos, buf) ==
    IF SeekCurrent(pos, 0 - Len(buf)).err
        THEN [buf |-> buf, size |-> 0, pos |-> pos, err |-> TRUE]
        ELSE ReverseRead2(FileRead(store, pos - Len(buf), buf), Len(buf))

\* the stores, the stacks and what the caller's buffer holds before a read
Stores == { <<10, 20, 30, 40, 50, 60>>, <<0, 255, 18>>, <<7>> }
Stacks == {"reverse", "inverted", "double"}
Fills == {0, 170}
Buffer(n, fill) == [i \in 1 .. n |-> fill]

StackRead(kind, store, pos, buf) ==
    CASE kind = "reverse" -> ReverseRead(store, pos, buf)
      [] kind = "inverted" -> BinInvertedRead(FileRead(store, pos, buf))
      [] OTHER -> BinInvertedRead(BinInvertedRead(FileRead(store, pos, buf)))

RdInit ==
    /\ cfg = Config(FALSE, 0, 0, FALSE, FALSE, TRUE)
    /\ disk = Valid(0, 25, <<>>, "zeros")
    /\ mtime = 1
    /\ phase = "aside"
    /\ fs = FsDefault
    /\ reply = NoReply
    /\ ahdd = Idle
    /\ ro = Idle
    /\ le = Idle
    /\ \E kind \in Stacks, store \in Stores, fill \in Fills :
           rd = [at |-> "rd", kind |-> kind, store |-> store, fill |-> fill,
                 pos |-> 0, start |-> 0, reads |-> <<>>]

\* Seek::seek(SeekFrom::Start(p)), which every reader hands to the store; a
\* run of reads starts where the seek leaves the cursor
RdSeek ==
    /\ rd.at = "rd"
    /\ \E p \in 0 .. Len(rd.store) + 1 :
           /\ p # rd.pos \/ rd.reads # <<>>
           /\ rd' = [rd EXCEPT !.pos = p, !.start = p, !.reads = <<>>]
    /\ UNCHANGED <<cfg, disk, mtime, phase, fs, reply, ahdd, ro, le>>

\* Read::read with a buffer of n bytes
RdRead ==
    /\ rd.at = "rd"
    /\ Len(rd.reads) < MaxReads
    /\ \E n \in 0 .. MaxRead :
         \E r \in {StackRead(rd.kind, rd.store, rd.pos, Buffer(n, rd.fill))} :
           rd' = [rd EXCEPT
                    !.pos = r.pos,
                    !.reads = Append(@, [n |-> n, before |-> rd.pos,
                                         after |-> r.pos, size |-> r.size,
                                         err |-> r.err, buf |-> r.buf])]
    /\ UNCHANGED <<cfg, disk, mtime, phase, fs, reply, ahdd, ro, le>>

RdNext ==
    \/ RdSeek
    \/ RdRead

SpecIo == RdInit /\ [][RdNext]_vars

\* the bytes of the store from offset a up to, not including, offset b
Block(store, a, b) == [i \in 1 .. b - a |-> store[a + i]]

\* the first k reads of the run asked for n bytes each
SameLength(k, n) == \A j \in 1 .. k : rd.reads[j].n = n

\* C12: from cursor position start, k successive ReverseReader reads of n
\* bytes each, k*n <= start, return in order the blocks [start-n, start),
\* [start-2n, start-n), ..., each in forward byte order; each read leaves the
\* cursor at the start of the bytes it read, so after the k reads it is at
\* start - k*n.
C12_ReverseBlocks ==
    (rd.at = "rd" /\ rd.kind = "reverse" /\ rd.start <= Len(rd.store)) =>
        \A k \in 1 .. Len(rd.reads), n \in 0 .. MaxRead + 1 :
            (SameLength(k, n) /\ k * n <= rd.start) =>
                /\ \A j \in 1 .. k :
                       /\ ~rd.reads[j].err
                       /\ rd.reads[j].size = n
                       /\ rd.reads[j].buf =
                              Block(rd.store, rd.start - j * n, rd.start - (j - 1) * n)
                       /\ rd.reads[j].after = rd.start - j * n
                /\ k = Len(rd.reads) => rd.pos = rd.start - k * n

\* three reads of 2 bytes from position 6 consumed the 6-byte store backwards
C12_Witness ==
    /\ rd.at = "rd"
    /\ rd.kind = "reverse"
    /\ rd.start = 6
    /\ Len(rd.reads) = 3
    /\ SameLength(3, 2)
    /\ rd.reads[1].buf = <<50, 60>>
    /\ rd.reads[3].buf = <<10, 20>>
    /\ rd.pos = 0

\* C13 as stated: after any ReverseReader read of n bytes the cursor is where
\* it was before the call.
C13_CursorRestored ==
    (rd.at = "rd" /\ rd.kind = "reverse") =>
        \A j \in 1 .. Len(rd.reads) : rd.reads[j].after = rd.reads[j].before

\* C13 amended: a ReverseReader read of n bytes that returns n bytes leaves
\* the cursor n bytes before the position it had before the call (where it was
\* only for n = 0); a read of more bytes than lie before the cursor fails in
\* its first seek, reads nothing and leaves the cursor where it was; a read
\* that returns size < n bytes (the cursor was past the end of the store)
\* leaves the cursor at pre - 2n + size, or fails at pre - n + size when that
\* is before byte 0.
C13_CursorSteppedBack ==
    (rd.at = "rd" /\ rd.kind = "reverse") =>
        \A j \in 1 .. Len(rd.reads) :
            LET r == rd.reads[j]
            IN  IF r.n > r.before
                    THEN r.err /\ r.after = r.before /\ r.size = 0
                ELSE IF r.size = r.n
                    THEN ~r.err /\ r.after = r.before - r.n
                ELSE IF r.before - 2 * r.n + r.size < 0
                    THEN r.err /\ r.after = r.before - r.n + r.size
                ELSE ~r.err /\ r.after = r.before - 2 * r.n + r.size

\* a read of 2 bytes at position 4 left the cursor at position 2
C13_Witness ==
    /\ rd.at = "rd"
    /\ rd.kind = "reverse"
    /\ Len(rd.reads) = 1
    /\ rd.reads[1].n = 2
    /\ rd.reads[1].before = 4
    /\ rd.reads[1].after = 2
    /\ rd.reads[1].size = 2

\* C14: a read through an InvertingReader returns each byte the store holds
\* at the cursor XOR 0xFF, with the size and the cursor move of the store's
\* own read; a read through two stacked InvertingReaders returns what the
\* store's own read returns, for every store, position and buffer.
C14_InvertTwiceIsIdentity ==
    (rd.at = "rd" /\ rd.kind \in {"inverted", "double"}) =>
        \A j \in 1 .. Len(rd.reads) :
            LET r == rd.reads[j]
                plain == FileRead(rd.store, r.before, Buffer(r.n, rd.fill))
            IN  /\ r.size = plain.size
                /\ r.after = plain.pos
                /\ ~r.err
                /\ rd.kind = "inverted" =>
                       \A i \in 1 .. r.size :
                           r.buf[i] = (U8 - 1) - rd.store[r.before + i]
                /\ rd.kind = "double" => r.buf = plain.buf

\* a 3-byte read at position 1 through two stacked readers returned the
\* store's last two bytes and left the third byte of the buffer as it was
C14_Witness ==
    /\ rd.at = "rd"
    /\ rd.kind = "double"
    /\ rd.fill = 170
    /\ Len(rd.reads) = 1
    /\ rd.reads[1].before = 1
    /\ rd.reads[1].buf = <<255, 18, 170>>
    /\ rd.pos = 3

\* ========================================================================
\* bkhdd: AHDD::read_header over the AltPro partition block
\* ========================================================================
AHDD_PT_SEC == 7
AHDD_PART_B == 502
AHDD_LOGD_B == 504
AHDD_CS_INIT == 5569

\* u32 values as two 16-bit halves
U32(hi, lo) == [hi |-> hi, lo |-> lo]

\* x * s in u32 for x < 2^20 and s < 2^16, with the overflow flag; a is x
\* times the low byte of s, q is x times the high byte
Mul32Sum(a, q, low) ==
    [hi |-> ((a \div U16) + (q \div U8) + (low \div U16)) % U16,
     lo |-> low % U16,
     over |-> (a \div U16) + (q \div U8) + (low \div U16) >= U16]

Mul32Parts(a, q) == Mul32Sum(a, q, (a % U16) + (q % U8) * U8)

Mul32(x, s) == Mul32Parts(x * (s % U8), x * (s \div U8))

\* a + n in u32 for n < 2^16, with the overflow flag
Add32(a, n) ==
    [hi |-> (a.hi + (a.lo + n) \div U16) % U16,
     lo |-> (a.lo + n) % U16,
     over |-> a.hi + (a.lo + n) \div U16 >= U16]

\* a / d and a % d in u32 for 0 < d < 2^16, by long division over the bytes
DivStep(st, b, d) ==
    [q |-> Append(st.q, (st.r * U8 + b) \div d), r |-> (st.r * U8 + b) % d]

DivBytes(a, d) ==
    DivStep(DivStep(DivStep(DivStep([q |-> <<>>, r |-> 0],
                                    a.hi \div U8, d),
                            a.hi % U8, d),
                    a.lo \div U8, d),
            a.lo % U8, d)

Div32Of(st) ==
    [q |-> U32(st.q[1] * U8 + st.q[2], st.q[3] * U8 + st.q[4]), r |-> st.r]

Div32(a, d) == Div32Of(DivBytes(a, d))

\* (a % m) for a u32 a and 0 < m < 2^16
Mod32(a, m) == DivBytes(a, m).r

\* An image file as read_header sees it: the last words of block AHDD_PT_SEC
\* as they are stored (the bytes before them are stored zero), the number of
\* bytes a read of that block returns, and the number of whole blocks in the
\* file.
HdImage(tail, size7, nblocks) ==
    [tail |-> tail, size7 |-> size7, nblocks |-> nblocks]

\* little-endian u16 at the even byte off of the buffer BinInvertedReader
\* filled: every stored byte arrives complemented
WordAt(img, off) ==
    IF off >= BLOCK_SIZE - 2 * Len(img.tail)
    THEN InvWord(img.tail[(off - (BLOCK_SIZE - 2 * Len(img.tail))) \div 2 + 1])
    ELSE InvWord(0)

AHDDLayoutRead(img) ==
    [partitions |-> WordAt(img, AHDD_LOGD_B) % U8,
     uni        |-> WordAt(img, AHDD_LOGD_B) \div U8,
     sectors    |-> WordAt(img, AHDD_LOGD_B + 2),
     heads      |-> WordAt(img, AHDD_LOGD_B + 4) % U8,
     drv        |-> WordAt(img, AHDD_LOGD_B + 4) \div U8,
     cylinders  |-> WordAt(img, AHDD_LOGD_B + 6)]

PartitionDefault ==
    [start_cylinder |-> 0, start_head |-> 0, start_sector |-> 0,
     lba |-> U32(0, 0), length |-> 0,
     end_cylinder |-> 0, end_head |-> 0, end_sector |-> 0, protected |-> FALSE]

Decoded(part) == [panic |-> FALSE, part |-> part]
DecodePanic == [panic |-> TRUE, part |-> PartitionDefault]

PartStart_as_read(w) == w

\* the word after "if (cyl as i16) < 0 { cyl = !cyl }"
PartStart(w) == IF w >= 2 ^ 15 THEN InvWord(w) ELSE w

\* the three end_* fields; hs is heads as u16 * sectors after a wrap
DecodeEnd(part, end, layout, hs) ==
    IF hs = 0 THEN DecodePanic
    ELSE Decoded([part EXCEPT
            !.end_cylinder = Div32(end, hs).q.lo,
            !.end_head = Mod32(Div32(end, layout.sectors).q, layout.heads),
            !.end_sector = (Mod32(end, layout.sectors) + 1) % U16])

DecodeGeometry(part, end, layout, oc) ==
    IF oc /\ layout.heads * layout.sectors >= U16 THEN DecodePanic
    ELSE DecodeEnd(part, end, layout, Wrap16(layout.heads * layout.sectors))

DecodeSum(part, e, layout, oc) ==
    IF oc /\ e.over THEN DecodePanic
    ELSE DecodeGeometry(part, U32(e.hi, e.lo), layout, oc)

DecodeLba(part, len, m, layout, oc) ==
    IF oc /\ m.over THEN DecodePanic
    ELSE DecodeSum([part EXCEPT !.lba = U32(m.hi, m.lo)],
                   Add32(U32(m.hi, m.lo), len), layout, oc)

DecodeStart(len, w, c, layout, oc) ==
    DecodeLba([PartitionDefault EXCEPT
                  !.length = len,
                  !.protected = (w >= 2 ^ 15),
                  !.start_cylinder = c \div 16,
                  !.start_head = c % 16,
                  !.start_sector = 1],
              len, Mul32((c \div 16) * layout.heads + (c % 16), layout.sectors),
              layout, oc)

\* one pass of the partition loop over the entry (len, w)
DecodePart(len, w, layout, oc) == DecodeStart(len, w, PartStart(w), layout, oc)

\* byte offset of the stored checksum word
ChecksumAt(layout) == AHDD_PART_B - 4 * layout.partitions

\* one pass of the partition loop: the entry is read, decoded and put in
\* front of self.partitions
PartsStep(img, layout, oc, st, d) ==
    IF d.panic THEN [st EXCEPT !.panic = TRUE]
    ELSE [k |-> st.k + 1, panic |-> FALSE, partitions |-> <<d.part>> \o st.partitions]

\* the passes k..upto-1 of the loop
RECURSIVE PartsRun(_, _, _, _, _)
PartsRun(img, layout, oc, upto, st) ==
    IF st.panic \/ st.k = upto THEN st
    ELSE PartsRun(img, layout, oc, upto,
             PartsStep(img, layout, oc, st,
                 DecodePart(WordAt(img, ChecksumAt(layout) + 2 + 4 * st.k),
                            WordAt(img, ChecksumAt(layout) + 4 + 4 * st.k),
                            layout, oc)))

\* "for _ in 0..layout.partitions", evaluated sixteen passes at a time
RECURSIVE PartsLoop(_, _, _, _)
PartsLoop(img, layout, oc, st) ==
    IF st.panic \/ st.k = layout.partitions THEN st
    ELSE PartsLoop(img, layout, oc,
             PartsRun(img, layout, oc, Min(layout.partitions, st.k + 16), st))

ChecksumWords_with_stored(layout) == (BLOCK_SIZE - ChecksumAt(layout)) \div 2

\* the number of words the checksum loop adds
ChecksumWords(layout) == (BLOCK_SIZE - (ChecksumAt(layout) + 2)) \div 2

\* the passes of the checksum loop up to count = upto, with the loop's
\* variables cs and count
RECURSIVE ChecksumRun(_, _, _)
ChecksumRun(img, upto, st) ==
    IF st.count = upto THEN st
    ELSE ChecksumRun(img, upto,
             [cs |-> Wrap16(st.cs + WordAt(img, BLOCK_SIZE - 2 * st.count - 2)),
              count |-> st.count + 1])

\* "for i in 0..n", evaluated sixteen passes at a time
RECURSIVE ChecksumLoop(_, _, _)
ChecksumLoop(img, n, st) ==
    IF st.count = n THEN st
    ELSE ChecksumLoop(img, n, ChecksumRun(img, Min(n, st.count + 16), st))

\* what a call leaves: the result, how far it came, self.partitions,
\* self.checksum, and the locals checksum (stored), cs and count
HeaderOut(result, stage, parts, selfcs, stored, cs, count) ==
    [result |-> result, stage |-> stage, partitions |-> parts,
     checksum |-> selfcs, stored |-> stored, cs |-> cs, count |-> count]

\* the read of the first partition's first block
ReadFirstBlock(img, parts, stored, cs, count) ==
    IF parts[1].lba.hi = 0 /\ parts[1].lba.lo < img.nblocks
    THEN HeaderOut("Ok", "done", parts, cs, stored, cs, count)
    ELSE HeaderOut("ReadHeaderSize", "first_block", parts, cs, stored, cs, count)

HeaderVerify(img, parts, stored, st) ==
    IF stored # st.cs
    THEN HeaderOut("panic", "assert", parts, AHDD_CS_INIT, stored, st.cs, st.count)
    ELSE IF parts = <<>>
    THEN HeaderOut("panic", "index", parts, st.cs, stored, st.cs, st.count)
    ELSE ReadFirstBlock(img, parts, stored, st.cs, st.count)

HeaderParts(img, layout, stored, lp) ==
    IF lp.panic
    THEN HeaderOut("panic", "partitions", lp.partitions, AHDD_CS_INIT, stored, 0, 0)
    ELSE HeaderVerify(img, lp.partitions, stored,
                      ChecksumLoop(img, ChecksumWords(layout),
                                   [cs |-> AHDD_CS_INIT, count |-> 0]))

HeaderTable(img, layout, oc) ==
    IF AHDD_PART_B < 4 * layout.partitions
    THEN HeaderOut(IF oc THEN "panic" ELSE "Io", "seek", <<>>, AHDD_CS_INIT, 0, 0, 0)
    ELSE HeaderParts(img, layout, WordAt(img, ChecksumAt(layout)),
                     PartsLoop(img, layout, oc,
                               [k |-> 0, panic |-> FALSE, partitions |-> <<>>]))

read_header(img, oc) ==
    IF img.size7 # BLOCK_SIZE
    THEN HeaderOut("ReadHeaderSize", "block", <<>>, AHDD_CS_INIT, 0, 0, 0)
    ELSE HeaderTable(img, AHDDLayoutRead(img), oc)

\* ------------------------------------------------------------------------
\* The images read_header is run on
\* ------------------------------------------------------------------------
RECURSIVE SumSeq(_)
SumSeq(ws) == IF ws = <<>> THEN 0 ELSE (Head(ws) + SumSeq(Tail(ws))) % U16

StoreWords(ws) == [i \in 1..Len(ws) |-> InvWord(ws[i])]

\* a table with a matching checksum: body is the entries in ascending address
\* order, two words (length, cyl_head) each, then the four header words
Table(body) == StoreWords(<<(AHDD_CS_INIT + SumSeq(body)) % U16>> \o body)

Header(p, uni, sectors, heads, drv, cylinders) ==
    <<p + uni * U8, sectors, heads + drv * U8, cylinders>>

FlipBit(w, k) == IF (w \div 2 ^ k) % 2 = 1 THEN w - 2 ^ k ELSE w + 2 ^ k

\* every image that differs from img in one stored bit of the table
OneBitOff(img) ==
    { [img EXCEPT !.tail[i] = FlipBit(@, k)] : i \in 1..Len(img.tail), k \in 0..15 }

OnePartition == HdImage(Table(<<100, 16>> \o Header(1, 0, 17, 4, 0, 615)), BLOCK_SIZE, 200)

TwoPartitions ==
    HdImage(Table(<<50, 32832, 100, 16>> \o Header(2, 0, 17, 4, 0, 615)), BLOCK_SIZE, 200)

HdImages ==
    {OnePartition, TwoPartitions}
    \cup OneBitOff(OnePartition) \cup OneBitOff(TwoPartitions)
    \cup { HdImage(Table(Header(0, 0, 17, 4, 0, 615)), BLOCK_SIZE, 200),
           HdImage(Table(<<100, 16>> \o Header(1, 0, 0, 4, 0, 615)), BLOCK_SIZE, 200),
           HdImage(Table(<<100, 16>> \o Header(1, 0, 40000, 2, 0, 615)), BLOCK_SIZE, 200),
           HdImage(Table(<<100, 16>> \o Header(1, 0, 32768, 2, 0, 615)), BLOCK_SIZE, 200),
           HdImage(Table(<<65535, 32767>> \o Header(1, 0, 65535, 255, 0, 4095)), BLOCK_SIZE, 200),
           HdImage(Table(<<100, 32>> \o Header(1, 0, 17, 4, 0, 615)), BLOCK_SIZE, 100),
           HdImage(Table(<<65535, 16>> \o Header(1, 0, 1, 1, 0, 615)), BLOCK_SIZE, 200),
           HdImage(Table(<<100, 16>> \o Header(1, 0, 17, 4, 0, 615)), 100, 7) }

AhddInit ==
    /\ cfg = Config(FALSE, 0, 0, FALSE, FALSE, TRUE)
    /\ disk = Valid(0, 25, <<>>, "zeros")
    /\ mtime = 1
    /\ phase = "aside"
    /\ fs = FsDefault
    /\ reply = NoReply
    /\ rd = Idle
    /\ ro = Idle
    /\ le = Idle
    /\ \E img \in HdImages, oc \in BOOLEAN :
           ahdd = [at |-> "new", img |-> img, overflow_checks |-> oc]

\* AHDD::read_header on a fresh AHDD
AhddReadHeader ==
    /\ ahdd.at = "new"
    /\ ahdd' = [at |-> "read", img |-> ahdd.img,
                overflow_checks |-> ahdd.overflow_checks,
                out |-> read_header(ahdd.img, ahdd.overflow_checks)]
    /\ UNCHANGED <<cfg, disk, mtime, phase, fs, reply, rd, ro, le>>

AhddNext == AhddReadHeader

SpecAhdd == AhddInit /\ [][AhddNext]_vars

\* ------------------------------------------------------------------------
\* Claims about read_header
\* ------------------------------------------------------------------------
\* the sum mod 2^16 of the words of the block at the even bytes lo..hi
RECURSIVE WordSum(_, _, _)
WordSum(img, lo, hi) ==
    IF lo > hi THEN 0
    ELSE IF lo = hi THEN WordAt(img, lo)
    ELSE (WordSum(img, lo, lo + 2 * ((hi - lo) \div 4))
          + WordSum(img, lo + 2 * ((hi - lo) \div 4) + 2, hi)) % U16

HeaderRead == ahdd.at = "read"
PartitionCount == WordAt(ahdd.img, 504) % U8
\* the block was read whole and the table lies inside it
TableInBlock == ahdd.img.size7 = 512 /\ 4 * PartitionCount <= 502
TableSum == (5569 + WordSum(ahdd.img, 504 - 4 * PartitionCount, 510)) % U16
StoredSum == WordAt(ahdd.img, 502 - 4 * PartitionCount)

\* C15: when the checksum over the partition block differs from the stored
\* checksum word, read_header returns the checksum-mismatch error carrying
\* (expected, actual); it neither succeeds nor aborts the process.
C15_MismatchIsAnError ==
    (HeaderRead /\ TableInBlock /\ TableSum # StoredSum)
        => /\ ahdd.out.result = "ChecksumError"
           /\ ahdd.out.stored = StoredSum
           /\ ahdd.out.cs = TableSum

\* C16: the checksum read_header computes for a block with p partitions is
\* (0o12701 + the 4 + 2p words at bytes 504-4p .. 511) mod 2^16, and the value
\* it is compared against is the word at bytes 502-4p .. 503-4p, which is not
\* part of the sum.
C16_ChecksumCoversTable ==
    (HeaderRead /\ ahdd.out.stage \in {"assert", "index", "first_block", "done"})
        => /\ TableInBlock
           /\ ahdd.out.count = 4 + 2 * PartitionCount
           /\ ahdd.out.cs = TableSum
           /\ ahdd.out.stored = StoredSum
           /\ (ahdd.out.stage = "assert") = (TableSum # StoredSum)

C16_Witness ==
    /\ HeaderRead
    /\ ahdd.out.stage = "done"
    /\ PartitionCount = 2
    /\ ahdd.out.count = 8
    /\ ahdd.out.cs = ahdd.out.stored

\* the cyl_head word of the entry self.partitions[j] was decoded from: the
\* entries are read in ascending address order and each is put in front
CylHeadOf(j) ==
    WordAt(ahdd.img,
           504 - 4 * PartitionCount + 4 * (Len(ahdd.out.partitions) - j) + 2)

\* C17 as stated: an entry with bit 15 of cyl_head set decodes to protected,
\* cyl = cyl_head >> 4, head = (~cyl_head) & 0xF; an entry with bit 15 clear
\* to not protected, cyl = cyl_head >> 4, head = cyl_head & 0xF.
C17_ProtectedKeepsCylinder ==
    HeaderRead =>
        \A j \in 1..Len(ahdd.out.partitions) :
            /\ ahdd.out.partitions[j].protected = (CylHeadOf(j) >= 32768)
            /\ ahdd.out.partitions[j].start_cylinder = CylHeadOf(j) \div 16
            /\ ahdd.out.partitions[j].start_head =
                   IF CylHeadOf(j) >= 32768 THEN (65535 - CylHeadOf(j)) % 16
                   ELSE CylHeadOf(j) % 16

\* C17 amended: with bit 15 set the whole word is complemented first, so
\* cyl = (~cyl_head & 0xFFFF) >> 4 and head = (~cyl_head) & 0xF; with bit 15
\* clear cyl = cyl_head >> 4 and head = cyl_head & 0xF.
C17_ProtectedComplementsWord ==
    HeaderRead =>
        \A j \in 1..Len(ahdd.out.partitions) :
            /\ ahdd.out.partitions[j].protected = (CylHeadOf(j) >= 32768)
            /\ ahdd.out.partitions[j].start_cylinder =
                   IF CylHeadOf(j) >= 32768 THEN (65535 - CylHeadOf(j)) \div 16
                   ELSE CylHeadOf(j) \div 16
            /\ ahdd.out.partitions[j].start_head =
                   IF CylHeadOf(j) >= 32768 THEN (65535 - CylHeadOf(j)) % 16
                   ELSE CylHeadOf(j) % 16

\* cyl_head = 0x8040 decoded to cyl 0x7FB, head 0xF, next to an unprotected
\* entry
C17_Witness ==
    /\ HeaderRead
    /\ Len(ahdd.out.partitions) = 2
    /\ CylHeadOf(2) = 32832
    /\ ahdd.out.partitions[2].protected
    /\ ahdd.out.partitions[2].start_cylinder = 2043
    /\ ahdd.out.partitions[2].start_head = 15
    /\ ~ahdd.out.partitions[1].protected
    /\ ahdd.out.partitions[1].start_cylinder = 1

\* ------------------------------------------------------------------------
\* Claims about statfs
\* ------------------------------------------------------------------------
\* C18: for every mounted volume statfs reports total = disk_size, free =
\* available = disk_size - blocks, files = meta.files, ffree = 0, bsize = 512
\* and namelen = 14, also when blocks > disk_size.
C18_StatfsReport ==
    reply.op = "statfs" =>
        /\ reply.status = "statfs"
        /\ reply.blocks = <<0, 0, 0, fs.meta.disk_size>>
        /\ reply.bfree = <<0, 0, 0, fs.meta.disk_size - fs.meta.blocks>>
        /\ reply.bavail = reply.bfree
        /\ reply.files = <<0, 0, 0, fs.meta.files>>
        /\ reply.ffree = <<0, 0, 0, 0>>
        /\ reply.bsize = 512
        /\ reply.namelen = 14

\* ------------------------------------------------------------------------
\* Claims about read_entries
\* ------------------------------------------------------------------------
\* a plain mount that succeeded, of an image whose records all have a status
\* of the table (so the unknown-status heuristic plays no part)
TableStatus(r) == r.name[1] = 127 \/ r.status \in {0, 1, 2, 128, 255}
PlainMounted ==
    /\ reply.op = "mount"
    /\ reply.status = "ok"
    /\ ~cfg.inverted
    /\ disk.tail \in {"zeros", "eof"}
    /\ \A i \in 1 .. Len(disk.recs) : TableStatus(disk.recs[i])

\* the listing ends after i records: the next record is the terminator (the
\* stored records are followed by one), or the cursor after record i is past
\* the volume's start_block * 512
ListingEndsAfter(i) ==
    \/ i = Len(disk.recs)
    \/ disk.recs[i + 1].name[1] = 0
    \/ i >= 1 /\ 320 + 24 * i > disk.start_block * 512

\* C19: read_entries stops only at the terminator, when the cursor after a
\* record exceeds the volume meta's start_block * 512 (+ offset), or on the
\* unknown-status heuristic; no record's own start_block ends it, so every
\* record before the stopping point is in the entry list.
C19_EveryRecordListed ==
    PlainMounted =>
        \A n \in 0 .. Len(disk.recs) :
            (ListingEndsAfter(n) /\ \A j \in 0 .. n - 1 : ~ListingEndsAfter(j)) =>
                /\ Len(fs.entries) = n
                /\ \A i \in 1 .. n :
                       /\ fs.entries[i].start_block = disk.recs[i].start_block
                       /\ fs.entries[i].length = disk.recs[i].length

\* the status a record has by the table
TableStatusOf(r) ==
    IF r.status = 255 THEN "Deleted"
    ELSE IF r.name[1] = 127 THEN "Directory"
    ELSE CASE r.status = 0 -> "Normal"
           [] r.status = 1 -> "Protected"
           [] r.status = 2 -> "LogicalDisk"
           [] OTHER -> "BadFile"

\* C20: each record is classified from (status byte, is_dir) as in the status
\* table; status 0o377 gives Deleted on file and directory records alike and
\* makes the entry a deleted one, reparented to the root and subject to
\* show_deleted; any other status on a directory record gives Directory.
C20_StatusTable ==
    (PlainMounted /\ Len(fs.entries) = Len(disk.recs)) =>
        \A i \in 1 .. Len(disk.recs) :
            /\ fs.entries[i].status = TableStatusOf(disk.recs[i])
            /\ fs.entries[i].is_dir = (disk.recs[i].name[1] = 127)
            /\ fs.entries[i].is_deleted = (disk.recs[i].status = 255)
            /\ fs.entries[i].is_bad =
                   (disk.recs[i].status = 128 /\ disk.recs[i].name[1] # 127)
            /\ fs.entries[i].parent_inode =
                   IF fs.entries[i].is_deleted \/ fs.entries[i].is_bad
                       THEN 1 ELSE 1 + disk.recs[i].dir_no

\* ------------------------------------------------------------------------
\* Claims about the unknown-status heuristic and the names
\* ------------------------------------------------------------------------
\* a plain mount that got past the meta block, of an image whose record k is
\* the first with a status outside the table and whose earlier records do not
\* end the listing
FirstUnknownAt(k) ==
    /\ reply.op = "mount"
    /\ reply.status \in {"ok", "panic"}
    /\ ~cfg.inverted
    /\ k \in 1 .. Len(disk.recs)
    /\ ~TableStatus(disk.recs[k])
    /\ \A i \in 1 .. k - 1 :
           /\ TableStatus(disk.recs[i])
           /\ disk.recs[i].name[1] # 0
           /\ 320 + 24 * i <= disk.recs[i].start_block * 512

\* the records before k that count as normal
NormalBefore(k) ==
    Cardinality({ i \in 1 .. k - 1 :
                    IF disk.recs[i].name[1] = 127 THEN disk.recs[i].status # 255
                    ELSE disk.recs[i].status \in {0, 1, 2} })

\* the halting condition of the heuristic, over the integers
HeuristicHalts(k) ==
    \/ NormalBefore(k) >= disk.files
    \/ disk.recs[k].start_block <= disk.start_block
    \/ disk.recs[k].start_block >= disk.disk_size
    \/ disk.recs[k].blocks > disk.disk_size - disk.blocks

\* C21: a non-directory record with a status outside the table ends the
\* parsing as at end of table when normal_count >= meta.files, start_block <=
\* meta.start_block, start_block >= meta.disk_size or blocks > meta.disk_size -
\* meta.blocks (the mount succeeds with the earlier entries), and is otherwise
\* appended as Normal with is_unknown; for all 16-bit meta values.
C21_UnknownStatusHeuristic ==
    \A k \in 1 .. Len(disk.recs) :
        FirstUnknownAt(k) =>
            /\ reply.status = "ok"
            /\ IF HeuristicHalts(k)
                   THEN Len(fs.entries) = k - 1
                   ELSE /\ Len(fs.entries) >= k
                        /\ fs.entries[k].status = "Normal"
                        /\ fs.entries[k].is_unknown
                        /\ fs.entries[k].start_block = disk.recs[k].start_block

\* a name without its trailing space and null characters
RECURSIVE WithoutPadding(_)
WithoutPadding(s) ==
    IF s # <<>> /\ s[Len(s)] \in {32, 0}
        THEN WithoutPadding(SubSeq(s, 1, Len(s) - 1))
        ELSE s

\* the name bytes of a record without the directory marker; the names of the
\* stored records are ASCII, which KOI8-R decodes to itself
NameBytes(r) == IF r.name[1] = 127 THEN Tail(r.name) ELSE r.name

\* C22: the name of every entry is the record's name bytes, without the
\* leading DIR_MARKER of a directory record, decoded and with all trailing
\* spaces and all trailing nulls removed.
C22_NamesTrimmed ==
    (PlainMounted /\ Len(fs.entries) = Len(disk.recs)) =>
        \A i \in 1 .. Len(disk.recs) :
            (\A j \in 1 .. 14 : disk.recs[i].name[j] < 128) =>
                fs.entries[i].name = WithoutPadding(NameBytes(disk.recs[i]))

\* ========================================================================
\* Fs::try_open, try_reopen and check_modified, statement by statement
\* ========================================================================
\* The handles on the backing file: reader is TRUE when self.reader holds one,
\* h is TRUE while the local h of try_open holds one that has not been moved
\* into self.reader. image is what a decode of the file yields at present.
HandleImages == {"volume", "not a volume"}
HandleOffsets == {0, 16 * BLOCK_SIZE}
HandleSizes == {0, 800 * BLOCK_SIZE}

HInit ==
    /\ cfg = Config(FALSE, 0, 0, FALSE, FALSE, TRUE)
    /\ disk = Valid(0, 25, <<>>, "zeros")
    /\ mtime = 1
    /\ phase = "aside"
    /\ fs = FsDefault
    /\ reply = NoReply
    /\ rd = Idle
    /\ ahdd = Idle
    /\ le = Idle
    /\ \E off \in HandleOffsets, sz \in HandleSizes, img \in HandleImages :
           ro = [at |-> "new", caller |-> "mount", offset |-> off, size |-> sz,
                 last_modified |-> UNIX_EPOCH, reader |-> FALSE, h |-> FALSE,
                 mt |-> 1, image |-> img]

HFrame == UNCHANGED <<cfg, disk, mtime, phase, fs, reply, rd, ahdd, le>>

\* the process is gone: every handle is closed
HExit(at) == [ro EXCEPT !.at = at, !.reader = FALSE, !.h = FALSE]

\* try_open returns Err: to main at mount, to check_modified (which panics)
\* at a reopen; the local h, if still held, is dropped on the way
HErr == HExit(IF ro.caller = "mount" THEN "failed" ELSE "panicked")

\* main calls try_open
HMount ==
    /\ ro.at = "new"
    /\ ro' = [ro EXCEPT !.at = "open"]
    /\ HFrame

\* try_open: let h = OpenOptions::new()...open(&fname)?
HOpen ==
    /\ ro.at = "open"
    /\ ro' = [ro EXCEPT !.at = "size", !.h = TRUE]
    /\ HFrame

\* try_open: if self.size == 0 { ... }
HSize ==
    /\ ro.at = "size"
    /\ ro' = IF ro.size # 0 THEN [ro EXCEPT !.at = "reader"]
             ELSE IF ro.offset # 0 THEN HErr
             ELSE [ro EXCEPT !.at = "reader", !.size = 800 * BLOCK_SIZE,
                             !.last_modified = ro.mt]
    /\ HFrame

\* try_open: self.reader = Some(reader); the reader held before is dropped
HSetReader ==
    /\ ro.at = "reader"
    /\ ro' = [ro EXCEPT !.at = "decode", !.reader = TRUE, !.h = FALSE]
    /\ HFrame

\* try_open: self.read_meta()?; self.read_entries()?; Ok(())
HDecode ==
    /\ ro.at = "decode"
    /\ ro' = IF ro.image = "volume" THEN [ro EXCEPT !.at = "served"] ELSE HErr
    /\ HFrame

\* check_modified up to the call of try_reopen
HCheck ==
    /\ ro.at = "served"
    /\ ro' = IF ro.mt # ro.last_modified
                 THEN [ro EXCEPT !.at = "reopen", !.caller = "check",
                                 !.last_modified = ro.mt]
                 ELSE ro
    /\ HFrame

\* try_reopen up to the call of try_open
HReopen ==
    /\ ro.at = "reopen"
    /\ ro' = [ro EXCEPT !.at = "open", !.size = 0]
    /\ HFrame

\* another process writes the backing file
HTouch ==
    /\ ro.at \notin {"failed", "panicked"}
    /\ ro.mt < MaxTime
    /\ \E img \in HandleImages : ro' = [ro EXCEPT !.mt = ro.mt + 1, !.image = img]
    /\ HFrame

HNext ==
    \/ HMount
    \/ HOpen
    \/ HSize
    \/ HSetReader
    \/ HDecode
    \/ HCheck
    \/ HReopen
    \/ HTouch

SpecHandles == HInit /\ [][HNext]_vars

OpenHandles == (IF ro.reader THEN 1 ELSE 0) + (IF ro.h THEN 1 ELSE 0)

\* C23: during a re-decode the handle held before is closed before the file
\* is opened again: at no point of the reparse are two handles on the image
\* open at once.
C23_OneHandleAtATime == ro.caller = "check" => OpenHandles <= 1

\* ------------------------------------------------------------------------
\* Claims about try_open and check_modified
\* ------------------------------------------------------------------------
\* C24: for every image of at least 320 bytes whose two labels are valid,
\* try_open returns success whatever the meta counters and the records'
\* status, start_block and blocks fields are; mismatches only warn.
C24_MountSucceeds ==
    (/\ reply.op = "mount"
     /\ ~cfg.inverted /\ cfg.offset = 0 /\ cfg.size = 0
     /\ disk.metalen >= 320
     /\ disk.microdos_label = 42798
     /\ disk.mkdos_label = 21260)
        => reply.status = "ok"

\* ------------------------------------------------------------------------
\* Claims about the partition geometry
\* ------------------------------------------------------------------------
\* the length word of the entry self.partitions[j] was decoded from
LengthOf(j) ==
    WordAt(ahdd.img,
           504 - 4 * PartitionCount + 4 * (Len(ahdd.out.partitions) - j))

HeaderSectors == WordAt(ahdd.img, 506)
HeaderHeads == WordAt(ahdd.img, 508) % 256

\* part.lba is (cyl * heads + head) * sectors
LbaExact(part) ==
    /\ Div32(part.lba, HeaderSectors).r = 0
    /\ Div32(part.lba, HeaderSectors).q.hi < 16
    /\ Div32(part.lba, HeaderSectors).q.hi * 65536
           + Div32(part.lba, HeaderSectors).q.lo
       = part.start_cylinder * HeaderHeads + part.start_head

\* the end_* fields of part are those of the block number end, with
\* end div (heads * sectors) taken as (end div sectors) div heads
EndExact(part, end) ==
    /\ ~end.over
    /\ Div32(Div32(end, HeaderSectors).q, HeaderHeads).q
           = [hi |-> 0, lo |-> part.end_cylinder]
    /\ part.end_head = Mod32(Div32(end, HeaderSectors).q, HeaderHeads)
    /\ part.end_sector = Mod32(end, HeaderSectors) + 1

\* C25: for every header and every partition entry the decoded partition has
\* lba = (cyl * heads + head) * sectors, end = lba + blocks, end_cylinder = end
\* div (heads * sectors), end_head = (end div sectors) mod heads, end_sector =
\* end mod sectors + 1, computed exactly: nothing wraps or is truncated and no
\* division fault occurs.
C25_GeometryExact ==
    (HeaderRead /\ TableInBlock) =>
        /\ Len(ahdd.out.partitions) = PartitionCount
        /\ PartitionCount > 0 => (HeaderSectors > 0 /\ HeaderHeads > 0)
        /\ \A j \in 1 .. Len(ahdd.out.partitions) :
               /\ ahdd.out.partitions[j].length = LengthOf(j)
               /\ LbaExact(ahdd.out.partitions[j])
               /\ EndExact(ahdd.out.partitions[j],
                           Add32(ahdd.out.partitions[j].lba, LengthOf(j)))

\* a step that serves a metadata operation or a read
ServesOp == reply = NoReply /\ reply'.op \in {"lookup", "getattr", "read", "readdir"}

\* the operation served by the step called check_modified: getattr of the
\* root does not, nor does a readdir that the full buffer ends early
ServesCheckedOp ==
    /\ ServesOp
    /\ reply'.op = "getattr" => reply'.ino # 1
    /\ reply'.op = "readdir" => reply'.status # "dropped"

\* last_modified after a mount and after a re-decode, and no re-decode of an
\* unmodified image
TimeIsCached ==
    /\ (reply'.op = "mount" /\ reply'.status = "ok" /\ reply = NoReply) =>
           fs'.last_modified = (IF cfg.size = 0 THEN mtime' ELSE 0)
    /\ (ServesOp /\ reply'.redecoded /\ phase' = "mounted") =>
           fs'.last_modified = mtime'
    /\ (ServesOp /\ fs.last_modified = mtime) =>
           (~reply'.redecoded /\ fs' = fs)

\* C26 as stated: last_modified is the file's time after a default mount and
\* after every successful re-decode, so an unmodified image is not re-decoded;
\* after a mount with an explicit size it is the epoch, so the first lookup,
\* getattr or readdir always re-decodes.
C26_FirstOpRedecodes ==
    [][/\ TimeIsCached
       /\ (ServesOp /\ reply'.op # "read" /\ fs.last_modified = 0) =>
              reply'.redecoded]_vars

\* C26 amended: as stated, but after a mount with an explicit size it is the
\* first operation that calls check_modified that re-decodes, or aborts the
\* process when the re-open fails.
C26_FirstCheckedOpRedecodes ==
    [][/\ TimeIsCached
       /\ (ServesCheckedOp /\ fs.last_modified = 0) =>
              (reply'.redecoded /\
                 (phase' = "panicked" \/ fs'.last_modified = mtime'))]_vars

\* the first lookup after a mount with an explicit size of an image that was
\* never modified re-decoded it and cached the file's time
C26_Witness ==
    /\ cfg.size # 0
    /\ mtime = 1
    /\ phase = "mounted"
    /\ reply.op = "lookup"
    /\ reply.redecoded
    /\ fs.last_modified = 1

\* the reply of an operation that re-decoded the volume
Redecoded ==
    reply.op \in {"lookup", "getattr", "read", "readdir"} /\ reply.redecoded

\* C27: try_reopen resets meta, the entries, the file-inode counter and the
\* size but keeps the offset: on a mount with a nonzero offset every detected
\* modification fails the re-open and aborts the process; on a mount with
\* offset 0 the re-decoded model is the one a fresh mount of the present image
\* produces.
C27_ReopenKeepsOffset ==
    /\ (Redecoded /\ cfg.offset # 0) => phase = "panicked"
    /\ (Redecoded /\ cfg.offset = 0 /\ phase = "mounted") =>
           (ModelIsCurrent /\ fs.size = FreshMount.fs.size)

\* a modification of a volume mounted at a nonzero offset was detected and
\* the process aborted, though the image is a valid volume
C27_Witness ==
    /\ Redecoded
    /\ cfg.offset # 0
    /\ mtime > 1
    /\ phase = "panicked"
    /\ try_open(disk, cfg, [FsDefault EXCEPT !.size = cfg.size], mtime).err = "ok"

\* ------------------------------------------------------------------------
\* Claims about readdir pages and the visibility flags
\* ------------------------------------------------------------------------
\* the listing of the directory of the present reply by one readdir from
\* offset 0 into a buffer that never fills
Unbounded == ReaddirResult(disk, cfg, fs, mtime, reply.ino, 0, 100)

\* the items of a listing after the one tagged o, at most cap of them
PageAfter(items, o, cap) ==
    SubSeq(SelectSeq(items, LAMBDA x : x.next_offset > o), 1,
           Min(cap, Len(SelectSeq(items, LAMBDA x : x.next_offset > o))))

\* C28: for a fixed parsed model readdir is resumable: readdir(p, o) emits
\* exactly the entries that follow the one tagged o in the unbounded listing,
\* with the same offsets, wherever the buffer became full.
C28_ReaddirResumable ==
    (/\ reply.op = "readdir"
     /\ ~reply.redecoded
     /\ fs.last_modified = mtime
     /\ reply.cap >= 1
     /\ Unbounded.status = "ok"
     /\ reply.offset <= Len(Unbounded.emitted))
        => /\ reply.status = "ok"
           /\ reply.emitted = PageAfter(Unbounded.emitted, reply.offset, reply.cap)

\* the configuration with both visibility flags on
ShowAll == [cfg EXCEPT !.show_deleted = TRUE, !.show_bad = TRUE]

\* the entries of the model that readdir hides under the present flags
Hidden(e) == ~Visible(cfg, e)
HiddenNamed(parent, name) ==
    \E k \in 1 .. Len(fs.entries) :
        /\ fs.entries[k].parent_inode = parent
        /\ fs.entries[k].name = name
        /\ Hidden(fs.entries[k])
        /\ \A j \in 1 .. (k - 1) :
               ~(fs.entries[j].parent_inode = parent /\ fs.entries[j].name = name)
HiddenInode(ino) ==
    \E k \in 1 .. Len(fs.entries) :
        fs.entries[k].inode = ino /\ Hidden(fs.entries[k])

\* the replies of the three operations with both flags on, for the request of
\* the present reply
LookupShown ==
    LookupReply(find_entrie(disk, ShowAll, fs, mtime, reply.name, reply.parent))
GetattrShown ==
    GetattrReply(reply.ino, entrie_by_inode(disk, ShowAll, fs, mtime, reply.ino))
ReadShown ==
    ReadReply(ShowAll, entrie_by_inode(disk, ShowAll, fs, mtime, reply.ino),
              reply.offset, reply.size)

SameAnswer(shown) == \A k \in DOMAIN shown : reply[k] = shown[k]

\* C29: the show_deleted and show_bad flags affect readdir only: a deleted
\* or bad file that readdir hides is still returned by lookup(1, name),
\* getattr(inode) and read(inode, ...), with the replies given when the flags
\* are on.
C29_FlagsHideInReaddirOnly ==
    (phase = "mounted" /\ fs.last_modified = mtime) =>
        /\ (reply.op = "lookup" /\ HiddenNamed(reply.parent, reply.name)) =>
               reply.status = "entry" /\ SameAnswer(LookupShown)
        /\ (reply.op = "getattr" /\ HiddenInode(reply.ino)) =>
               reply.status = "attr" /\ SameAnswer(GetattrShown)
        /\ (reply.op = "read" /\ HiddenInode(reply.ino)) =>
               reply.status = "data" /\ SameAnswer(ReadShown)

C29_Witness ==
    /\ phase = "mounted"
    /\ fs.last_modified = mtime
    /\ reply.op = "lookup"
    /\ reply.parent = 1
    /\ HiddenNamed(1, reply.name)
    /\ reply.status = "entry"
    /\ \E k \in 1 .. Len(fs.entries) :
           fs.entries[k].inode = reply.attr.ino /\ fs.entries[k].is_bad

\* ------------------------------------------------------------------------
\* The loop of Fs::read_entries, pass by pass
\* ------------------------------------------------------------------------
\* volumes without a terminator record: the file ends after the last record
NoTerminator ==
    { Valid(5, 30, <<fA, fB, fDel, fBad, fA>>, "eof"),
      Valid(3, 28, <<d1, fB, fA>>, "eof"),
      Valid(2, 29, <<fA, fUnk>>, "eof") }

\* what read_entries is run on: the volumes read_meta accepts, read without
\* inversion
LoopConfigs ==
    { Config(FALSE, 0, 0, FALSE, FALSE, TRUE),
      Config(FALSE, 0, 0, FALSE, FALSE, FALSE),
      Config(FALSE, 16 * BLOCK_SIZE, 800 * BLOCK_SIZE, FALSE, FALSE, TRUE) }
LoopImages ==
    { img \in PlainImages \cup NoTerminator :
        read_meta(img, Config(FALSE, 0, 0, FALSE, FALSE, TRUE), MetaDefault).err = "ok" }

\* the cursor left where it was
Advance_none(cur_pos) == cur_pos

\* cur_pos += DIR_ENTRY_SIZE
Advance(cur_pos) == cur_pos + DIR_ENTRY_SIZE

LInit ==
    /\ cfg \in LoopConfigs
    /\ disk \in LoopImages
    /\ mtime = 1
    /\ phase = "aside"
    /\ fs = FsDefault
    /\ reply = NoReply
    /\ rd = Idle
    /\ ahdd = Idle
    /\ ro = Idle
    /\ le = [at |-> "start"]

LFrame == UNCHANGED <<cfg, disk, mtime, phase, fs, reply, rd, ahdd, ro>>

\* the record the next pass reads, and the arm of the status match it takes
LRecord == ReadRecord(disk, le.i, cfg.inverted)
LClass == Classify(LRecord, le.meta, cfg, le.acc)
LPushed ==
    [LClass.acc EXCEPT
        !.entries = Append(@, MakeEntry(LRecord, LClass, le.acc.file_inodes)),
        !.file_inodes = IF LRecord.name[1] = DIR_MARKER THEN @ ELSE @ + 1]

\* let mut cur_pos = DirEntriesStart + self.offset; the counters; the seek
LStart ==
    /\ le.at = "start"
    /\ le' = [at |-> "loop", cur_pos |-> DirEntriesStart + cfg.offset, i |-> 1,
              meta |-> read_meta(disk, cfg, MetaDefault).meta,
              acc |-> AccInit(FILE_INODES_START)]
    /\ LFrame

\* a pass that reads a record whose name starts with a zero byte: break
LTerminator ==
    /\ le.at = "loop"
    /\ LRecord.name[1] = 0
    /\ le' = [le EXCEPT !.at = "after"]
    /\ LFrame

\* a pass that ends in the unknown-status arm: break
LStop ==
    /\ le.at = "loop"
    /\ LRecord.name[1] # 0
    /\ LClass.kind = "stop"
    /\ le' = [le EXCEPT !.at = "after"]
    /\ LFrame

\* a pass whose u16 arithmetic fails the overflow check
LPanic ==
    /\ le.at = "loop"
    /\ LRecord.name[1] # 0
    /\ LClass.kind = "panic"
    /\ le' = [le EXCEPT !.at = "panicked"]
    /\ LFrame

\* a pass that pushes its entry and goes round again
LPush ==
    /\ le.at = "loop"
    /\ LRecord.name[1] # 0
    /\ LClass.kind = "entry"
    /\ Advance(le.cur_pos) <= LRecord.start_block * BLOCK_SIZE + cfg.offset
    /\ \E pushed \in {LPushed} :
           le' = [le EXCEPT !.acc = pushed, !.cur_pos = Advance(le.cur_pos),
                            !.i = le.i + 1]
    /\ LFrame

\* a pass that pushes its entry and finds the cursor past the record's
\* start block: break
LPushLast ==
    /\ le.at = "loop"
    /\ LRecord.name[1] # 0
    /\ LClass.kind = "entry"
    /\ Advance(le.cur_pos) > LRecord.start_block * BLOCK_SIZE + cfg.offset
    /\ \E pushed \in {LPushed} :
           le' = [le EXCEPT !.at = "after", !.acc = pushed,
                            !.cur_pos = Advance(le.cur_pos), !.i = le.i + 1]
    /\ LFrame

\* the checks after the loop, then Ok(())
LReturn ==
    /\ le.at = "after"
    /\ \E a \in {EntriesCheck(cfg, le.meta, le.acc)} :
           le' = [le EXCEPT !.at = IF a.panic THEN "panicked" ELSE "returned",
                            !.acc = a]
    /\ LFrame

LNext ==
    \/ LStart
    \/ LTerminator
    \/ LStop
    \/ LPanic
    \/ LPush
    \/ LPushLast
    \/ LReturn

\* the loop runs to its end once entered: nothing else is scheduled
SpecLoop == LInit /\ [][LNext]_vars /\ WF_vars(LNext)

\* the number of whole records the file holds after the catalogue header
RecordsInFile == Len(disk.recs)

LastPushed == le.acc.entries[Len(le.acc.entries)]

\* C30: read_entries terminates on every image read without inversion,
\* including images with no terminator record and images shorter than the
\* directory area: each pass advances the cursor by 24 bytes, a record read
\* at or past the end of the file is all zero and ends the table, and the
\* loop goes on only while the cursor does not exceed 65535 * 512 + offset.
C30_ReadEntriesTerminates ==
    /\ [](le.at = "loop" =>
            /\ le.cur_pos = DirEntriesStart + cfg.offset
                              + DIR_ENTRY_SIZE * Len(le.acc.entries)
            /\ le.i = Len(le.acc.entries) + 1
            /\ le.i <= RecordsInFile + 1
            /\ le.cur_pos <= (U16 - 1) * BLOCK_SIZE + cfg.offset
            /\ le.acc.entries # <<>> =>
                   le.cur_pos <= LastPushed.start_block * BLOCK_SIZE + cfg.offset)
    /\ <>(le.at \in {"returned", "panicked"})

C30_Witness ==
    /\ le.at = "returned"
    /\ disk.tail = "eof"
    /\ Len(le.acc.entries) = RecordsInFile
    /\ RecordsInFile = 5
====
